---- MODULE Spec2Model ----
(***************************************************************************)
(* Model of the ThreeDeeRender panel's coordinate-frame handling:          *)
(*   Renderer        (frame selection, transform ingestion, frameHandler)  *)
(*   SceneExtension  (per-renderable pose update and diagnostics)          *)
(*   TransformTree / CoordinateFrame / updatePose (./transforms and        *)
(*   ./updatePose are imported by the sources but are not among them; they *)
(*   are modelled from the design document)                                *)
(*                                                                         *)
(* A Transform is abstracted to a translation along one axis, an integer:  *)
(* compose is +, invert is unary minus, interpolate is linear.             *)
(***************************************************************************)
EXTENDS Integers, Sequences, FiniteSets, TLC

\* ------------------------------------------------------------------ bounds
MaxEdges == 2        \* edges stored in the whole tree
MaxStamp == 2        \* transform stamps are 1..MaxStamp
MaxTime == 2         \* render times are 1..MaxTime
MaxTopics == 2       \* topics in renderState.topics
MaxMessages == 2     \* calls of addMessageEvent
MaxRegistrations == 3   \* calls of addDatatypeSubscriptions

\* --------------------------------------------------------------- constants
DEFAULT_FRAME_IDS == <<"base_link", "odom", "map", "earth">>

Undefined == "undefined"     \* the JavaScript value undefined, for strings
NoTime == -1                 \* the JavaScript value undefined, for bigint times

FrameIds == {"odom", "map", "a", "b", "c", "d", ""}
Values == {0, 2}             \* translations of the transforms
Stamps == 1..MaxStamp
Times == 1..MaxTime
Topics == {"t1"}
FrameLocked == {"true", "false", Undefined}     \* BaseSettings.frameLocked?: boolean

TRANSFORM_STORAGE_TIME_NS == 1     \* 60 seconds, the unit of the stamps being 60 s

MISSING_TRANSFORM == "MISSING_TRANSFORM"
INVALID_FOXGLOVE_GRID == "INVALID_FOXGLOVE_GRID"

NoMessages == [defined |-> FALSE, items |-> <<>>]
Loaders == 1..2                    \* the ExtensionLoaderContext value, in order
ExtensionIds == {"e1", "e2"}
NoCall == [id |-> Undefined, next |-> 0]
NoOutcome == [id |-> Undefined, found |-> FALSE, outcome |-> "none"]
\* the methods of the unified loader that return what the first loader returns
Operations == {"loadExtension", "downloadExtension", "installExtension"}
NoUnified == [op |-> Undefined, arg |-> Undefined, count |-> 0, next |-> 0]
NoResult == [op |-> Undefined, arg |-> Undefined, count |-> 0, outcome |-> "none", by |-> 0,
             error |-> Undefined]
\* topic names, in the order Array.prototype.sort gives them
SortedTopicNames == <<"/a", "/b">>
TopicNames == {"/a", "/b"}
\* datatypes: one of TF_DATATYPES, one of TRANSFORM_STAMPED_DATATYPES, one of
\* GRID_DATATYPES, for which the renderer registers a handler; "other" is a
\* datatype without a handler
TF_DATATYPES == {"tf"}
TRANSFORM_STAMPED_DATATYPES == {"stamped"}
GRID_DATATYPES == {"grid"}
EventDatatypes == TF_DATATYPES \cup TRANSFORM_STAMPED_DATATYPES \cup GRID_DATATYPES
Visible == {"true", "false", Undefined}            \* LayerSettings.visible?: boolean
NoTopics == [defined |-> FALSE, items |-> <<>>]
NoList == [defined |-> FALSE, items |-> <<>>, ref |-> 0]
NoSubscription == [defined |-> FALSE, items |-> <<>>]
NoDone == -1                       \* no done callback was passed yet
\* the done callback of onRender, () => void, as an argument of a state setter
Done == [function |-> TRUE, returns |-> Undefined]
\* a call of addMessageEvent's that takes no transform
NoArg == [child |-> Undefined, parent |-> Undefined, stamp |-> 0, value |-> 0]
Handlers == {"h1", "h2"}           \* the MessageHandler functions of the callers
NoTf == [child |-> Undefined, parent |-> Undefined, stamp |-> 0, value |-> 0, found |-> "none"]

VARIABLES
    frames,          \* TransformTree frames(): frame ids in Map insertion order
    history,         \* per frame, its edges [stamp, parent, value] in time order
    renderFrameId,   \* Renderer.renderFrameId
    fixedFrameId,    \* Renderer.fixedFrameId
    currentTime,     \* Renderer.currentTime
    lastTf,          \* the TransformStamped most recently ingested, NoTf before the first,
                     \* and what the child's history held at its stamp: "none", the
                     \* "same" edge or an "other" edge
    renderables,     \* SceneExtension.renderables: topic -> userData
    errors,          \* renderer.settings.errors: set of <<settingsPath, errorId>>
    renderer,        \* ThreeDeeRender: the renderer state is set (not ReactNull)
    panelTime,       \* ThreeDeeRender: the currentTime state
    topics,          \* ThreeDeeRender: names in topicsToDatatypes
    messages,        \* ThreeDeeRender: the messages state [defined, items]
    changed,         \* states that changed for the effects of the commit
    needsRender,     \* renderRef.current.needsRender
    pc,              \* the effect of the commit that runs next, "idle" between commits
    msgIdx,          \* position of the messages effect in its loop
    events,          \* calls made on the renderer since the commit began:
                     \* i for addMessageEvent(items[i]), 0 for animationFrame
    wpc,             \* defaultFrameId counting the roots: "idle", "root", "done"
    wIdx,            \* index in frames() of the frame whose root() is running
    wCur,            \* the frame root() has walked to
    wVisited,        \* the frames root() has visited
    wRoots,          \* the results of root(), one per frame done: [id, cycle]
    installed,       \* per extension loader, the ids of the extensions it holds
    uninstalling,    \* the unified uninstallExtension call in flight: [id, next]
    uninstalled,     \* how the last unified uninstallExtension call ended: [id, found, outcome]
    coordinateFrameList,   \* Renderer.coordinateFrameList
    emitted,         \* transformTreeUpdated events emitted by the last call on the tree
    recomputed,      \* whether that call assigned coordinateFrameList
    renderDone,      \* ThreeDeeRender: the renderDone state
    doneCalls,       \* invocations of the done callback of the last onRender call
    topicList,       \* ThreeDeeRender: the topics state [defined, items], items of [name, datatype]
    topicVisible,    \* config.topics[name].visible, per topic name
    datatypeHandlers,  \* the datatypes of the datatypeHandlers memo
    topicsToSubscribe, \* the topicsToSubscribe state [defined, items, ref], ref
                     \* telling two arrays apart
    subscribeDeps,   \* topicsToSubscribe as the subscribe effect saw it last
    subscribed,      \* the list of the last context.subscribe call [defined, items]
    called,          \* whether the subscribe effect of the last commit called context.subscribe
    spc,             \* the subscription effect that runs next, "idle" between commits
    frameCalls,      \* the last frameHandler call: the events it emitted and, per
                     \* renderable, what startFrame called, as [call, path]
    handlerLists,    \* Renderer.datatypeHandlers: per datatype, the MessageHandler[]
    registrations,   \* the addDatatypeSubscriptions calls so far, [datatypes, handler]
    messageCalls,    \* the last addMessageEvent call: what it called, in order, as
                     \* [call, arg, tf]
    messageCount,    \* the number of addMessageEvent calls
    unifiedCall,     \* the loadExtension, downloadExtension or installExtension call of
                     \* the unified loader in flight: [op, arg, count, next], count the
                     \* length of the loader list and next the loader it awaits
    loaderCalls,     \* the loader calls of that unified call, or of the last one, in
                     \* order: [loader, rejected]
    unifiedResult    \* how the last unified call settled: [op, arg, count, outcome, by,
                     \* error], by the loader whose result it returned

listVars == <<coordinateFrameList, emitted, recomputed>>
treeVars == <<frames, history, lastTf, listVars>>
frameVars == <<renderFrameId, fixedFrameId, currentTime, frameCalls>>
sceneVars == <<renderables, errors>>
rendererVars == <<treeVars, frameVars, sceneVars>>
doneVars == <<renderDone, doneCalls>>
panelVars == <<renderer, panelTime, topics, messages, changed, needsRender, pc, msgIdx, events,
               doneVars>>
walkVars == <<wpc, wIdx, wCur, wVisited, wRoots>>
loaderVars == <<installed, uninstalling, uninstalled>>
subscribeVars == <<topicList, topicVisible, datatypeHandlers, topicsToSubscribe, subscribeDeps,
                   subscribed, called, spc>>
eventVars == <<handlerLists, registrations, messageCalls, messageCount>>
unifiedVars == <<unifiedCall, loaderCalls, unifiedResult>>
vars == <<rendererVars, panelVars, walkVars, loaderVars, subscribeVars, eventVars, unifiedVars>>

\* what the actions of one component leave alone
notRenderer == <<panelVars, walkVars, loaderVars, subscribeVars, eventVars, unifiedVars>>
notPanel == <<walkVars, loaderVars, subscribeVars, eventVars, unifiedVars>>
notWalk == <<rendererVars, panelVars, loaderVars, subscribeVars, eventVars, unifiedVars>>
notLoader == <<rendererVars, panelVars, walkVars, subscribeVars, eventVars, unifiedVars>>
notSubscribe == <<rendererVars, panelVars, walkVars, loaderVars, eventVars, unifiedVars>>
notEvent == <<frameVars, sceneVars, panelVars, walkVars, loaderVars, subscribeVars, unifiedVars>>
notUnified == <<rendererVars, panelVars, walkVars, subscribeVars, eventVars,
                uninstalling, uninstalled>>

\* ----------------------------------------------------------------- helpers
Range(s) == {s[i] : i \in 1..Len(s)}

IndexOf(s, x) == CHOOSE i \in 1..Len(s) : s[i] = x /\ \A j \in 1..(i - 1) : s[j] # x

RECURSIVE SumLen(_, _)
SumLen(h, S) ==
    IF S = {} THEN 0
    ELSE LET f == CHOOSE x \in S : TRUE IN Len(h[f]) + SumLen(h, S \ {f})

TotalEdges == SumLen(history, FrameIds)

\* ------------------------------------------------- CoordinateFrame (Frame)
\* addEdge keeping the edge stored at this stamp
addEdge_KeepBoth(h, stamp, parentId, value) ==
    LET e == [stamp |-> stamp, parent |-> parentId, value |-> value]
        before == SelectSeq(h, LAMBDA x : x.stamp <= stamp)
        after == SelectSeq(h, LAMBDA x : x.stamp > stamp)
    IN before \o <<e>> \o after

\* addEdge: insert in time order; an edge at exactly this stamp is replaced
addEdge(h, stamp, parentId, value) ==
    LET e == [stamp |-> stamp, parent |-> parentId, value |-> value]
        before == SelectSeq(h, LAMBDA x : x.stamp < stamp)
        after == SelectSeq(h, LAMBDA x : x.stamp > stamp)
    IN before \o <<e>> \o after

\* prune dropping every edge older than the window
prune_DropAll(h, now, retention) == SelectSeq(h, LAMBDA e : e.stamp >= now - retention)

\* prune: drops the edges older than now - retention, keeping the most recent
\* edge in any case
prune(h, now, retention) ==
    IF h = <<>> THEN h
    ELSE LET last == h[Len(h)] IN
         SelectSeq(h, LAMBDA e : e.stamp >= now - retention \/ e = last)

\* latestParent: the parent of the most recent edge, none without edges
latestParent(h) == IF h = <<>> THEN Undefined ELSE h[Len(h)].parent

\* ----------------------------------------------------------- TransformTree
hasFrame(fs, id) == id \in Range(fs)

getOrCreateFrame(fs, id) == IF hasFrame(fs, id) THEN fs ELSE Append(fs, id)

\* root: follow latestParent until a frame without parent; a parent chain that
\* revisits a frame stops there and is reported as a cycle
RECURSIVE rootWalk(_, _, _)
rootWalk(hist, id, visited) ==
    LET p == latestParent(hist[id]) IN
    IF p = Undefined THEN [id |-> id, cycle |-> FALSE]
    ELSE IF p \in visited \cup {id} THEN [id |-> id, cycle |-> TRUE]
    ELSE rootWalk(hist, p, visited \cup {id})

root(hist, id) == rootWalk(hist, id, {})

\* addTransform adding the edge of a frame to itself
addTransform_NoReject(fs, hist, childId, parentId, stamp, value) ==
    LET fs1 == getOrCreateFrame(getOrCreateFrame(fs, childId), parentId)
        h1 == addEdge(hist[childId], stamp, parentId, value)
    IN [frames |-> fs1,
        history |-> [hist EXCEPT ![childId] = h1],
        updated |-> \/ fs1 # fs
                    \/ latestParent(h1) # latestParent(hist[childId])]

\* addTransform: creates both frames, rejects self-parenting, adds the edge to
\* the child; reports whether the frame graph changed (new frame, new parent)
addTransform(fs, hist, childId, parentId, stamp, value) ==
    LET fs1 == getOrCreateFrame(getOrCreateFrame(fs, childId), parentId)
        rejected == childId = parentId
        h1 == IF rejected THEN hist[childId]
              ELSE addEdge(hist[childId], stamp, parentId, value)
    IN [frames |-> fs1,
        history |-> [hist EXCEPT ![childId] = h1],
        updated |-> \/ fs1 # fs
                    \/ latestParent(h1) # latestParent(hist[childId])]

\* the order of the frame ids in a sorted list
SortedFrameIds == <<"", "a", "b", "c", "d", "map", "odom">>

\* every pair of a frame and a root, ordered by root, then by frame
SortedEntries ==
    [k \in 1..(Len(SortedFrameIds) * Len(SortedFrameIds)) |->
        [value |-> SortedFrameIds[((k - 1) % Len(SortedFrameIds)) + 1],
         root |-> SortedFrameIds[((k - 1) \div Len(SortedFrameIds)) + 1]]]

\* frameList: an entry per frame, grouped by root and sorted
frameList(fs, hist) ==
    LET rootOf == [id \in Range(fs) |-> root(hist, id).id]
    IN SelectSeq(SortedEntries,
                 LAMBDA e : e.value \in DOMAIN rootOf /\ rootOf[e.value] = e.root)

\* ---------------------------------------------------------------- Renderer
\* defaultFrameId, first loop, scanning the preferred frames from the last
RECURSIVE firstPreferred_Reversed(_, _)
firstPreferred_Reversed(fs, i) ==
    LET k == Len(DEFAULT_FRAME_IDS) + 1 - i IN
    IF k < 1 THEN Undefined
    ELSE IF hasFrame(fs, DEFAULT_FRAME_IDS[k]) THEN DEFAULT_FRAME_IDS[k]
    ELSE firstPreferred_Reversed(fs, i + 1)

\* defaultFrameId, first loop: the preferred frames in priority order
RECURSIVE firstPreferred(_, _)
firstPreferred(fs, i) ==
    IF i > Len(DEFAULT_FRAME_IDS) THEN Undefined
    ELSE IF hasFrame(fs, DEFAULT_FRAME_IDS[i]) THEN DEFAULT_FRAME_IDS[i]
    ELSE firstPreferred(fs, i + 1)

\* defaultFrameId, second loop: the roots in order of first appearance while
\* iterating the frames (the key order of the rootsToCounts Map)
RECURSIVE rootsInOrder(_, _, _, _)
rootsInOrder(fs, hist, i, acc) ==
    IF i > Len(fs) THEN acc
    ELSE LET r == root(hist, fs[i]).id IN
         rootsInOrder(fs, hist, i + 1, IF r \in Range(acc) THEN acc ELSE Append(acc, r))

rootCount(fs, hist, r) == Cardinality({i \in 1..Len(fs) : root(hist, fs[i]).id = r})

\* the sort with the comparison reversed, (a, b) => a[1] - b[1]
mostPopulatedRoot_Ascending(fs, hist) ==
    LET rs == rootsInOrder(fs, hist, 1, <<>>) IN
    IF rs = <<>> THEN Undefined
    ELSE LET best == CHOOSE i \in 1..Len(rs) :
                 /\ \A j \in 1..Len(rs) : rootCount(fs, hist, rs[j]) >= rootCount(fs, hist, rs[i])
                 /\ \A j \in 1..(i - 1) : rootCount(fs, hist, rs[j]) > rootCount(fs, hist, rs[i])
         IN rs[best]

\* rootsArray.sort((a, b) => b[1] - a[1])[0]?.[0]: the sort is stable, so the
\* first element is the earliest entry among those with the greatest count
mostPopulatedRoot(fs, hist) ==
    LET rs == rootsInOrder(fs, hist, 1, <<>>) IN
    IF rs = <<>> THEN Undefined
    ELSE LET best == CHOOSE i \in 1..Len(rs) :
                 /\ \A j \in 1..Len(rs) : rootCount(fs, hist, rs[j]) <= rootCount(fs, hist, rs[i])
                 /\ \A j \in 1..(i - 1) : rootCount(fs, hist, rs[j]) < rootCount(fs, hist, rs[i])
         IN rs[best]

defaultFrameId(fs, hist) ==
    LET p == firstPreferred(fs, 1) IN
    IF p # Undefined THEN p ELSE mostPopulatedRoot(fs, hist)

\* _updateFrames taking the most populated root as the fixed frame
updateFrames_PopulatedRoot(fs, hist, renderId, fixedId) ==
    LET r1 == IF renderId = Undefined THEN defaultFrameId(fs, hist) ELSE renderId IN
    IF r1 = Undefined THEN [render |-> Undefined, fixed |-> Undefined]
    ELSE IF ~hasFrame(fs, r1) THEN [render |-> r1, fixed |-> Undefined]
    ELSE [render |-> r1, fixed |-> mostPopulatedRoot(fs, hist)]

\* _updateFrames choosing the default frame on every call
updateFrames_Reselect(fs, hist, renderId, fixedId) ==
    LET r1 == defaultFrameId(fs, hist) IN
    IF r1 = Undefined THEN [render |-> Undefined, fixed |-> Undefined]
    ELSE IF ~hasFrame(fs, r1) THEN [render |-> r1, fixed |-> Undefined]
    ELSE [render |-> r1, fixed |-> root(hist, r1).id]

\* _updateFrames keeping a fixed frame once it has one
updateFrames_KeepFixed(fs, hist, renderId, fixedId) ==
    LET r1 == IF renderId = Undefined THEN defaultFrameId(fs, hist) ELSE renderId IN
    IF r1 = Undefined THEN [render |-> Undefined, fixed |-> Undefined]
    ELSE IF ~hasFrame(fs, r1) THEN [render |-> r1, fixed |-> Undefined]
    ELSE [render |-> r1,
          fixed |-> IF fixedId = Undefined THEN root(hist, r1).id ELSE fixedId]

\* _updateFrames: the pair of frame ids it leaves behind
updateFrames(fs, hist, renderId, fixedId) ==
    LET r1 == IF renderId = Undefined THEN defaultFrameId(fs, hist) ELSE renderId IN
    IF r1 = Undefined THEN [render |-> Undefined, fixed |-> Undefined]
    ELSE IF ~hasFrame(fs, r1) THEN [render |-> r1, fixed |-> Undefined]
    ELSE [render |-> r1, fixed |-> root(hist, r1).id]

\* -------------------------------------------------------------- updatePose
\* edgeAt + interpolate: the transform of a frame to its parent at a time. The
\* bracketing edges are interpolated; with one side only, that edge is used
transformAt(h, time) ==
    LET lo == {i \in 1..Len(h) : h[i].stamp <= time}
        hi == {i \in 1..Len(h) : h[i].stamp >= time}
        l == CHOOSE i \in lo : \A j \in lo : j <= i
        u == CHOOSE i \in hi : \A j \in hi : i <= j
    IN IF h = <<>> THEN [ok |-> FALSE, value |-> 0]
       ELSE IF lo = {} THEN [ok |-> TRUE, value |-> h[u].value]
       ELSE IF hi = {} THEN [ok |-> TRUE, value |-> h[l].value]
       ELSE IF h[l].stamp = h[u].stamp THEN [ok |-> TRUE, value |-> h[l].value]
       ELSE [ok |-> TRUE,
             value |-> h[l].value + ((h[u].value - h[l].value) * (time - h[l].stamp))
                                      \div (h[u].stamp - h[l].stamp)]

\* the ancestor chain of a frame: the frame ids from it up to its root
RECURSIVE chainWalk(_, _, _)
chainWalk(hist, id, acc) ==
    LET p == latestParent(hist[id])
        acc1 == Append(acc, id)
    IN IF p = Undefined THEN [ids |-> acc1, cycle |-> FALSE]
       ELSE IF p \in Range(acc1) THEN [ids |-> acc1, cycle |-> TRUE]
       ELSE chainWalk(hist, p, acc1)

chain(hist, id) == chainWalk(hist, id, <<>>)

\* the composed transform of the first n hops of a chain at a time
RECURSIVE composeHops(_, _, _, _)
composeHops(hist, ids, n, time) ==
    IF n = 0 THEN [ok |-> TRUE, value |-> 0]
    ELSE LET rest == composeHops(hist, ids, n - 1, time)
             hop == transformAt(hist[ids[n]], time)
         IN [ok |-> rest.ok /\ hop.ok, value |-> rest.value + hop.value]

\* a failed resolution and its reason
Failure(reason) == [ok |-> FALSE, value |-> 0, reason |-> reason]

\* a pose
Pose(value) == [ok |-> TRUE, value |-> value, reason |-> ""]

\* resolvePose composing the two chains up to their own roots when they share
\* no frame
resolvePose_ComposeUnrelated(fs, hist, from, to, time) ==
    IF ~hasFrame(fs, from) \/ ~hasFrame(fs, to) THEN Failure("unknown frame")
    ELSE LET cf == chain(hist, from)
             ct == chain(hist, to)
             common == {i \in 1..Len(cf.ids) : cf.ids[i] \in Range(ct.ids)}
         IN IF cf.cycle \/ ct.cycle THEN Failure("cycle")
            ELSE LET i == IF common = {} THEN Len(cf.ids)
                          ELSE CHOOSE x \in common : \A y \in common : x <= y
                     j == IF common = {} THEN Len(ct.ids) ELSE IndexOf(ct.ids, cf.ids[i])
                     up == composeHops(hist, cf.ids, i - 1, time)
                     down == composeHops(hist, ct.ids, j - 1, time)
                 IN IF up.ok /\ down.ok THEN Pose(up.value - down.value)
                    ELSE Failure("no data")

\* resolvePose(fromFrame, toFrame, time): the pose of fromFrame in toFrame
resolvePose(fs, hist, from, to, time) ==
    IF ~hasFrame(fs, from) \/ ~hasFrame(fs, to) THEN Failure("unknown frame")
    ELSE LET cf == chain(hist, from)
             ct == chain(hist, to)
             common == {i \in 1..Len(cf.ids) : cf.ids[i] \in Range(ct.ids)}
         IN IF cf.cycle \/ ct.cycle THEN Failure("cycle")
            ELSE IF common = {} THEN Failure("disconnected frames")
            ELSE LET i == CHOOSE x \in common : \A y \in common : x <= y
                     j == IndexOf(ct.ids, cf.ids[i])
                     up == composeHops(hist, cf.ids, i - 1, time)
                     down == composeHops(hist, ct.ids, j - 1, time)
                 IN IF up.ok /\ down.ok THEN Pose(up.value - down.value)
                    ELSE Failure("no data")

\* updatePose: render frame to fixed frame at dstTime, source frame to fixed
\* frame at srcTime, composed; no pose when either resolution fails
updatePose(fs, hist, renderId, fixedId, srcFrameId, dstTime, srcTime) ==
    LET anchor == resolvePose(fs, hist, renderId, fixedId, dstTime)
        src == resolvePose(fs, hist, srcFrameId, fixedId, srcTime)
    IN IF anchor.ok /\ src.ok THEN [ok |-> TRUE, value |-> src.value - anchor.value]
       ELSE [ok |-> FALSE, value |-> 0]

\* ---------------------------------------------------------- SceneExtension
\* the source time with frameLocked ?? false
srcTimeOf_DefaultUnlocked(r, time) ==
    LET frameLocked == IF r.frameLocked = Undefined THEN "false" ELSE r.frameLocked
    IN IF frameLocked = "true" THEN time ELSE r.messageTime

\* the source time of a renderable's pose: frameLocked ?? true
srcTimeOf(r, time) ==
    LET frameLocked == IF r.frameLocked = Undefined THEN "true" ELSE r.frameLocked
    IN IF frameLocked = "true" THEN time ELSE r.messageTime

\* startFrame updating the pose of a renderable whatever its visibility
startFrameRenderable_PoseHidden(fs, hist, r, time, renderId, fixedId) ==
    LET res == updatePose(fs, hist, renderId, fixedId, r.frameId, time, srcTimeOf(r, time))
    IN IF res.ok THEN [r EXCEPT !.pose = res.value] ELSE r

\* startFrame for one renderable: its userData afterwards
startFrameRenderable(fs, hist, r, time, renderId, fixedId) ==
    IF ~r.visible THEN r
    ELSE LET res == updatePose(fs, hist, renderId, fixedId, r.frameId, time, srcTimeOf(r, time))
         IN IF res.ok THEN [r EXCEPT !.pose = res.value] ELSE r

\* startFrame that adds the error on failure and never removes it
startFrameErrors_NoRemove(fs, hist, errs, path, r, time, renderId, fixedId) ==
    IF ~r.visible THEN {e \in errs : e[1] # path}
    ELSE LET res == updatePose(fs, hist, renderId, fixedId, r.frameId, time, srcTimeOf(r, time))
         IN IF ~res.ok THEN errs \cup {<<path, MISSING_TRANSFORM>>}
            ELSE errs

\* startFrame for one renderable: the errors afterwards
startFrameErrors(fs, hist, errs, path, r, time, renderId, fixedId) ==
    IF ~r.visible THEN {e \in errs : e[1] # path}
    ELSE LET res == updatePose(fs, hist, renderId, fixedId, r.frameId, time, srcTimeOf(r, time))
         IN IF ~res.ok THEN errs \cup {<<path, MISSING_TRANSFORM>>}
            ELSE errs \ {<<path, MISSING_TRANSFORM>>}

\* startFrame: every renderable of the extension, in turn
RECURSIVE startFrameAll(_, _, _, _, _, _, _)
startFrameAll(fs, hist, errs, rs, time, renderId, fixedId) ==
    IF rs = {} THEN errs
    ELSE LET k == CHOOSE x \in rs : TRUE IN
         startFrameAll(fs, hist,
                       startFrameErrors(fs, hist, errs, k, renderables[k], time, renderId, fixedId),
                       rs \ {k}, time, renderId, fixedId)

\* an event emitted by the Renderer, as an entry of the calls of a tick
Emit(event) == [call |-> event, path |-> Undefined]

\* startFrame for one renderable: what it calls, clearPath for a renderable
\* that is not visible, updatePose for a visible one
startFrameCall(path, r) ==
    IF ~r.visible THEN [call |-> "clearPath", path |-> path]
    ELSE [call |-> "updatePose", path |-> path]

\* startFrame: the calls for every renderable of the extension, in turn
RECURSIVE startFrameCalls(_)
startFrameCalls(rs) ==
    IF rs = {} THEN <<>>
    ELSE LET k == CHOOSE x \in rs : TRUE IN
         <<startFrameCall(k, renderables[k])>> \o startFrameCalls(rs \ {k})

\* ----------------------------------------------------------------- actions
Init ==
    /\ frames = <<>>
    /\ history = [f \in FrameIds |-> <<>>]
    /\ lastTf = NoTf
    /\ renderFrameId = Undefined
    /\ fixedFrameId = Undefined
    /\ currentTime = NoTime
    /\ renderables = <<>>
    /\ errors = {}
    /\ renderer = FALSE
    /\ panelTime = NoTime
    /\ topics = {}
    /\ messages = NoMessages
    /\ changed = {}
    /\ needsRender = FALSE
    /\ pc = "idle"
    /\ msgIdx = 1
    /\ events = <<>>
    /\ wpc = "idle"
    /\ wIdx = 1
    /\ wCur = Undefined
    /\ wVisited = {}
    /\ wRoots = <<>>
    /\ installed = [l \in Loaders |-> {}]
    /\ uninstalling = NoCall
    /\ uninstalled = NoOutcome
    /\ coordinateFrameList = <<>>
    /\ emitted = 0
    /\ recomputed = FALSE
    /\ renderDone = Undefined
    /\ doneCalls = NoDone
    /\ topicList = NoTopics
    /\ topicVisible = [n \in TopicNames |-> Undefined]
    /\ datatypeHandlers = {}
    /\ topicsToSubscribe = NoList
    /\ subscribeDeps = NoList
    /\ subscribed = NoSubscription
    /\ called = FALSE
    /\ spc = "idle"
    /\ frameCalls = <<>>
    /\ handlerLists = [d \in EventDatatypes |-> <<>>]
    /\ registrations = <<>>
    /\ messageCalls = <<>>
    /\ messageCount = 0
    /\ unifiedCall = NoUnified
    /\ loaderCalls = <<>>
    /\ unifiedResult = NoResult

\* addTransformMessage recomputing the list for new frames only
UpdateFrameList_NewFramesOnly(addParent, addChild, updated, fs, hist) ==
    IF addParent \/ addChild
    THEN /\ coordinateFrameList' = frameList(fs, hist)
         /\ emitted' = 1
         /\ recomputed' = TRUE
    ELSE /\ coordinateFrameList' = coordinateFrameList
         /\ emitted' = 0
         /\ recomputed' = FALSE

\* the end of addTransformMessage: with a new parent or child frame, else with
\* a change reported by addTransform, the cached list is recomputed from the
\* tree (fs, hist) and transformTreeUpdated is emitted
UpdateFrameList(addParent, addChild, updated, fs, hist) ==
    IF addParent \/ addChild
    THEN /\ coordinateFrameList' = frameList(fs, hist)
         /\ emitted' = 1
         /\ recomputed' = TRUE
    ELSE IF updated
    THEN /\ coordinateFrameList' = frameList(fs, hist)
         /\ emitted' = 1
         /\ recomputed' = TRUE
    ELSE /\ coordinateFrameList' = coordinateFrameList
         /\ emitted' = 0
         /\ recomputed' = FALSE

\* the record of a transform handed to addTransformMessage
Ingested(child, parent, stamp, value) ==
    LET e == [stamp |-> stamp, parent |-> parent, value |-> value]
        at == {x \in Range(history[child]) : x.stamp = stamp}
    IN [child |-> child, parent |-> parent, stamp |-> stamp, value |-> value,
        found |-> IF at = {} THEN "none" ELSE IF e \in at THEN "same" ELSE "other"]

\* addTransformMessage passing child_frame_id for both frame ids
AddTransformMessage_ChildTwice(child, parent, stamp, value) ==
    /\ TotalEdges < MaxEdges
    /\ LET res == addTransform(frames, history, child, child, stamp, value) IN
        /\ frames' = res.frames
        /\ history' = res.history
        /\ UpdateFrameList(~hasFrame(frames, parent), ~hasFrame(frames, child),
                           res.updated, frames', history')
    /\ lastTf' = Ingested(child, parent, stamp, value)
    /\ UNCHANGED <<frameVars, sceneVars>>

\* addTransformMessage stamping the edge with the order of receipt
AddTransformMessage_ReceiveOrder(child, parent, stamp, value) ==
    /\ TotalEdges < MaxEdges
    /\ LET res == addTransform(frames, history, child, parent, MaxStamp + TotalEdges + 1, value) IN
        /\ frames' = res.frames
        /\ history' = res.history
        /\ UpdateFrameList(~hasFrame(frames, parent), ~hasFrame(frames, child),
                           res.updated, frames', history')
    /\ lastTf' = Ingested(child, parent, stamp, value)
    /\ UNCHANGED <<frameVars, sceneVars>>

\* addTransformMessage dropping a transform older than the child's latest edge
AddTransformMessage_DropLate(child, parent, stamp, value) ==
    /\ TotalEdges < MaxEdges
    /\ LET late == history[child] # <<>> /\ history[child][Len(history[child])].stamp > stamp
           res == addTransform(frames, history, child, parent, stamp, value) IN
        /\ frames' = res.frames
        /\ history' = IF late THEN history ELSE res.history
        /\ UpdateFrameList(~hasFrame(frames, parent), ~hasFrame(frames, child),
                           res.updated, frames', history')
    /\ lastTf' = Ingested(child, parent, stamp, value)
    /\ UNCHANGED <<frameVars, sceneVars>>

\* Renderer.addTransformMessage
AddTransformMessage(child, parent, stamp, value) ==
    /\ TotalEdges < MaxEdges
    /\ LET res == addTransform(frames, history, child, parent, stamp, value) IN
        /\ frames' = res.frames
        /\ history' = res.history
        /\ UpdateFrameList(~hasFrame(frames, parent), ~hasFrame(frames, child),
                           res.updated, frames', history')
    /\ lastTf' = Ingested(child, parent, stamp, value)
    /\ UNCHANGED <<frameVars, sceneVars>>

\* normalizeHeader / normalizeTransformStamped: a missing frame id becomes ""
normalizeFrameId(id) == IF id = Undefined THEN "" ELSE id

\* addMessageEvent of a TFMessage with one transform: normalizeTFMessage, then
\* addTransformMessage
IngestTransform(rawChild, rawParent, stamp, value) ==
    AddTransformMessage(normalizeFrameId(rawChild), normalizeFrameId(rawParent), stamp, value)

\* the transform tree pruning the history of every frame with its retention
\* window, the one the Renderer constructs it with
Prune(now) ==
    /\ history' = [f \in FrameIds |-> prune(history[f], now, TRANSFORM_STORAGE_TIME_NS)]
    /\ history' # history
    /\ UNCHANGED <<frames, lastTf, listVars, frameVars, sceneVars>>

\* normalizeQuaternion defaulting a missing w to 1
normalizeQuaternion_UnitW(quat) ==
    IF ~quat.defined THEN [x |-> "0", w |-> "1"]
    ELSE [x |-> IF quat.x = Undefined THEN "0" ELSE quat.x,
          w |-> IF quat.w = Undefined THEN "1" ELSE quat.w]

\* normalizeQuaternion: the identity for a missing quaternion, 0 for each
\* missing component of a partial one (the components y and z are left out,
\* they are treated as x is)
normalizeQuaternion(quat) ==
    IF ~quat.defined THEN [x |-> "0", w |-> "1"]
    ELSE [x |-> IF quat.x = Undefined THEN "0" ELSE quat.x,
          w |-> IF quat.w = Undefined THEN "0" ELSE quat.w]

\* a rotation with a non-finite component, or of norm 0
Malformed(q) == q.x = "NaN" \/ q.w = "NaN" \/ (q.x = "0" /\ q.w = "0")

\* addTransformMessage of a transform that addTransform rejects as malformed:
\* the frames are created, the edge is dropped
RejectTransform(child, parent, stamp, value) ==
    /\ TotalEdges < MaxEdges
    /\ frames' = getOrCreateFrame(getOrCreateFrame(frames, child), parent)
    /\ UpdateFrameList(~hasFrame(frames, parent), ~hasFrame(frames, child),
                       frames' # frames, frames', history)
    /\ lastTf' = Ingested(child, parent, stamp, value)
    /\ UNCHANGED <<history, frameVars, sceneVars>>

\* addMessageEvent of a TFMessage with one transform and its rotation:
\* normalizeTFMessage, then addTransformMessage
IngestRotated(rawChild, rawParent, stamp, value, rawRotation) ==
    IF Malformed(normalizeQuaternion(rawRotation))
    THEN RejectTransform(normalizeFrameId(rawChild), normalizeFrameId(rawParent), stamp, value)
    ELSE AddTransformMessage(normalizeFrameId(rawChild), normalizeFrameId(rawParent), stamp, value)

\* Renderer.addCoordinateFrame
AddCoordinateFrame(frameId) ==
    /\ ~hasFrame(frames, frameId)
    /\ frames' = getOrCreateFrame(frames, frameId)
    /\ coordinateFrameList' = frameList(frames', history)
    /\ emitted' = 1
    /\ recomputed' = TRUE
    /\ UNCHANGED <<history, lastTf, frameVars, sceneVars>>

\* addDatatypeSubscriptions pushing the handler whether it is in the list or not
addHandler_NoIncludes(handlers, handler) == Append(handlers, handler)

\* addDatatypeSubscriptions, for one datatype: the handler is pushed unless the
\* list includes it
addHandler(handlers, handler) ==
    IF handler \in Range(handlers) THEN handlers ELSE Append(handlers, handler)

\* Renderer.addDatatypeSubscriptions; a datatype without a list gets an empty
\* one first
AddDatatypeSubscriptions(datatypes, handler) ==
    /\ Len(registrations) < MaxRegistrations
    /\ handlerLists' = [d \in EventDatatypes |->
                           IF d \in datatypes THEN addHandler(handlerLists[d], handler)
                           ELSE handlerLists[d]]
    /\ registrations' = Append(registrations, [datatypes |-> datatypes, handler |-> handler])
    /\ UNCHANGED <<messageCalls, messageCount, treeVars>>

\* the entries of messageCalls
CallFrame(frameId) == [call |-> "addCoordinateFrame", arg |-> frameId, tf |-> NoArg]
CallTf(tf) == [call |-> "addTransformMessage", arg |-> Undefined, tf |-> tf]
CallHandler(handler) == [call |-> "handler", arg |-> handler, tf |-> NoArg]

\* normalizeTransformStamped, of the fields the tree takes
normalizeTransformStamped(raw) ==
    [child |-> normalizeFrameId(raw.child), parent |-> normalizeFrameId(raw.parent),
     stamp |-> raw.stamp, value |-> raw.value]

\* addCoordinateFrame within addMessageEvent: the tree, the cached list and
\* the number of transformTreeUpdated events afterwards
addCoordinateFrameTo(st, frameId) ==
    IF hasFrame(st.frames, frameId) THEN [st EXCEPT !.calls = Append(@, CallFrame(frameId))]
    ELSE LET fs == getOrCreateFrame(st.frames, frameId) IN
         [st EXCEPT !.frames = fs, !.list = frameList(fs, st.history),
                    !.emitted = @ + 1, !.calls = Append(@, CallFrame(frameId))]

\* addTransformMessage within addMessageEvent
addTransformMessageTo(st, tf) ==
    LET addParent == ~hasFrame(st.frames, tf.parent)
        addChild == ~hasFrame(st.frames, tf.child)
        res == addTransform(st.frames, st.history, tf.child, tf.parent, tf.stamp, tf.value)
        e == [stamp |-> tf.stamp, parent |-> tf.parent, value |-> tf.value]
        at == {x \in Range(st.history[tf.child]) : x.stamp = tf.stamp}
        recompute == addParent \/ addChild \/ res.updated
    IN [frames |-> res.frames,
        history |-> res.history,
        list |-> IF recompute THEN frameList(res.frames, res.history) ELSE st.list,
        emitted |-> st.emitted + (IF recompute THEN 1 ELSE 0),
        lastTf |-> [child |-> tf.child, parent |-> tf.parent, stamp |-> tf.stamp,
                    value |-> tf.value,
                    found |-> IF at = {} THEN "none" ELSE IF e \in at THEN "same" ELSE "other"],
        calls |-> Append(st.calls, CallTf(tf))]

\* for (const tf of tfMessage.transforms) addTransformMessage(tf)
RECURSIVE addTransformMessages(_, _, _)
addTransformMessages(st, tfs, i) ==
    IF i > Len(tfs) THEN st
    ELSE addTransformMessages(addTransformMessageTo(st, normalizeTransformStamped(tfs[i])),
                              tfs, i + 1)

\* for (const handler of handlers) handler(messageEvent)
RECURSIVE invokeHandlers(_, _, _)
invokeHandlers(calls, handlers, i) ==
    IF i > Len(handlers) THEN calls
    ELSE invokeHandlers(Append(calls, CallHandler(handlers[i])), handlers, i + 1)

\* the transforms addMessageEvent ingests: those of a TFMessage, the message
\* itself when it is a TransformStamped, none for another datatype
transformsOf(message) ==
    IF message.datatype \in TF_DATATYPES THEN message.transforms
    ELSE IF message.datatype \in TRANSFORM_STAMPED_DATATYPES
         THEN <<[child |-> message.child, parent |-> message.header.frame_id,
                 stamp |-> 1, value |-> 0]>>
    ELSE <<>>

\* Renderer.addMessageEvent. A message is [header, datatype, child, transforms],
\* header being [defined, frame_id]. The handlers are the callers' functions:
\* a call of one is recorded
AddMessageEvent(message) ==
    LET st0 == [frames |-> frames, history |-> history, list |-> coordinateFrameList,
                emitted |-> 0, lastTf |-> lastTf, calls |-> <<>>]
        st1 == IF message.header.defined
               THEN addCoordinateFrameTo(st0, normalizeFrameId(message.header.frame_id))
               ELSE st0
        st2 == addTransformMessages(st1, transformsOf(message), 1)
    IN /\ messageCount < MaxMessages
       /\ TotalEdges + Len(transformsOf(message)) <= MaxEdges
       /\ frames' = st2.frames
       /\ history' = st2.history
       /\ lastTf' = st2.lastTf
       /\ coordinateFrameList' = st2.list
       /\ emitted' = st2.emitted
       /\ recomputed' = (st2.emitted > 0)
       /\ messageCalls' = invokeHandlers(st2.calls, handlerLists[message.datatype], 1)
       /\ messageCount' = messageCount + 1
       /\ UNCHANGED <<handlerLists, registrations>>

\* the panel's currentTime effect: renderer.currentTime = currentTime
SetCurrentTime(time) ==
    /\ currentTime # time
    /\ currentTime' = time
    /\ UNCHANGED <<treeVars, renderFrameId, fixedFrameId, frameCalls, sceneVars>>

\* a caller configures an explicit render frame
SetRenderFrame(frameId) ==
    /\ renderFrameId # frameId
    /\ renderFrameId' = frameId
    /\ UNCHANGED <<treeVars, fixedFrameId, currentTime, frameCalls, sceneVars>>

\* a message handler of a scene extension: creates the renderable of the topic
\* with the settings of the configuration, or updates its frame and time
HandleMessage(topic, frameId, messageTime, visible, frameLocked) ==
    /\ renderables' =
          IF topic \in DOMAIN renderables
          THEN [renderables EXCEPT ![topic].frameId = frameId,
                                   ![topic].messageTime = messageTime]
          ELSE [k \in DOMAIN renderables \cup {topic} |->
                   IF k = topic
                   THEN [visible |-> visible, frameLocked |-> frameLocked,
                         frameId |-> frameId, messageTime |-> messageTime, pose |-> 0]
                   ELSE renderables[k]]
    /\ UNCHANGED <<treeVars, frameVars, errors>>

\* a settings action of a scene extension: replaces the renderable's settings
HandleSettingsAction(topic, visible, frameLocked) ==
    /\ topic \in DOMAIN renderables
    /\ renderables' = [renderables EXCEPT ![topic].visible = visible,
                                          ![topic].frameLocked = frameLocked]
    /\ UNCHANGED <<treeVars, frameVars, errors>>

\* a grid message that is invalid: the error is added at the topic of its
\* renderable
AddTopicError(topic) ==
    /\ topic \in DOMAIN renderables
    /\ <<topic, INVALID_FOXGLOVE_GRID>> \notin errors
    /\ errors' = errors \cup {<<topic, INVALID_FOXGLOVE_GRID>>}
    /\ UNCHANGED <<treeVars, frameVars, renderables>>

\* frameHandler emitting "endFrame" on every call
FrameHandler_EndAlways(time) ==
    LET fr == updateFrames(frames, history, renderFrameId, fixedFrameId) IN
    /\ renderFrameId' = fr.render
    /\ fixedFrameId' = fr.fixed
    /\ IF fr.render = Undefined \/ fr.fixed = Undefined
       THEN UNCHANGED sceneVars
       ELSE /\ renderables' =
                  [k \in DOMAIN renderables |->
                      startFrameRenderable(frames, history, renderables[k], time,
                                           fr.render, fr.fixed)]
            /\ errors' = startFrameAll(frames, history, errors, DOMAIN renderables, time,
                                       fr.render, fr.fixed)
    /\ frameCalls' =
          IF renderFrameId' = Undefined \/ fixedFrameId' = Undefined
          THEN <<Emit("startFrame"), Emit("endFrame")>>
          ELSE <<Emit("startFrame")>> \o startFrameCalls(DOMAIN renderables)
                   \o <<Emit("endFrame")>>
    /\ UNCHANGED <<treeVars, currentTime>>

\* Renderer.frameHandler: _updateFrames, then startFrame on the scene
\* extensions when both frames are defined
FrameHandler(time) ==
    LET fr == updateFrames(frames, history, renderFrameId, fixedFrameId) IN
    /\ renderFrameId' = fr.render
    /\ fixedFrameId' = fr.fixed
    /\ IF fr.render = Undefined \/ fr.fixed = Undefined
       THEN UNCHANGED sceneVars
       ELSE /\ renderables' =
                  [k \in DOMAIN renderables |->
                      startFrameRenderable(frames, history, renderables[k], time,
                                           fr.render, fr.fixed)]
            /\ errors' = startFrameAll(frames, history, errors, DOMAIN renderables, time,
                                       fr.render, fr.fixed)
    /\ frameCalls' =
          IF renderFrameId' = Undefined \/ fixedFrameId' = Undefined
          THEN <<Emit("startFrame")>>
          ELSE <<Emit("startFrame")>> \o startFrameCalls(DOMAIN renderables)
                   \o <<Emit("endFrame")>>
    /\ UNCHANGED <<treeVars, currentTime>>

\* Renderer.animationFrame
AnimationFrame ==
    /\ currentTime # NoTime
    /\ FrameHandler(currentTime)

\* ------------------------------------------------------------ ThreeDeeRender
\* appends a call to the calls of the commit; repeated animationFrame calls
\* are recorded once
Log(ev, e) == IF ev # <<>> /\ ev[Len(ev)] = e THEN ev ELSE Append(ev, e)

\* a state setter of useState: a function passed to it is an updater, called
\* with the previous state, and what it returns becomes the state; any other
\* value becomes the state itself
setState(prev, action) ==
    IF action.function
    THEN [state |-> action.returns, called |-> TRUE]
    ELSE [state |-> action.value, called |-> FALSE]

\* the effect that creates the Renderer for the canvas; the new renderer state
\* starts a commit
CreateRenderer ==
    /\ pc = "idle"
    /\ ~renderer
    /\ renderer' = TRUE
    /\ changed' = {"renderer"}
    /\ pc' = "currentTime"
    /\ events' = <<>>
    /\ UNCHANGED <<rendererVars, doneVars, panelTime, topics, messages, needsRender, msgIdx>>

\* context.onRender: the state setters of one batched update, which start a
\* commit; time = NoTime and frame = NoMessages stand for fields that are not set
OnRender(time, topicsIn, frame) ==
    /\ pc = "idle"
    /\ TotalEdges + Len(frame.items) <= MaxEdges
    /\ panelTime' = IF time # NoTime THEN time ELSE panelTime
    /\ topics' = topicsIn
    /\ messages' = frame
    /\ changed' = (IF time # NoTime /\ time # panelTime THEN {"currentTime"} ELSE {})
                     \cup (IF frame.defined \/ messages.defined THEN {"messages"} ELSE {})
                     \cup (IF topicsIn # topics THEN {"topics"} ELSE {})
                     \cup (IF setState(renderDone, Done).state # renderDone
                           THEN {"renderDone"} ELSE {})
    /\ LET set == setState(renderDone, Done) IN
        /\ renderDone' = set.state
        /\ doneCalls' = IF set.called THEN 1 ELSE 0
    /\ pc' = "currentTime"
    /\ events' = <<>>
    /\ UNCHANGED <<rendererVars, renderer, needsRender, msgIdx>>

\* the effect that keeps renderer.currentTime up to date
CurrentTimeEffect ==
    /\ pc = "currentTime"
    /\ IF changed \cap {"currentTime", "renderer"} # {} /\ renderer /\ panelTime # NoTime
       THEN currentTime' = panelTime /\ needsRender' = TRUE
       ELSE UNCHANGED <<currentTime, needsRender>>
    /\ pc' = "messages"
    /\ msgIdx' = 1
    /\ UNCHANGED <<treeVars, renderFrameId, fixedFrameId, frameCalls, sceneVars>>
    /\ UNCHANGED <<doneVars, renderer, panelTime, topics, messages, changed, events>>

\* the messages effect has run when one of its dependencies changed and
\* neither the renderer nor the messages are missing
MessagesEffectRuns ==
    /\ changed \cap {"messages", "renderer", "topics"} # {}
    /\ renderer
    /\ messages.defined

\* the messages effect does not run, or returns at once
MessagesEffectSkip ==
    /\ pc = "messages"
    /\ ~MessagesEffectRuns
    /\ pc' = "camera"
    /\ UNCHANGED <<rendererVars, doneVars, renderer, panelTime, topics, messages, changed,
                   needsRender, msgIdx, events>>

\* the messages effect stopping at the first message without a datatype
MessagesEffectStep_Break ==
    /\ pc = "messages"
    /\ MessagesEffectRuns
    /\ msgIdx <= Len(messages.items)
    /\ LET message == messages.items[msgIdx] IN
       IF message.topic \in topics
       THEN /\ AddTransformMessage(message.child, message.parent, message.stamp, 0)
            /\ events' = Log(events, msgIdx)
            /\ msgIdx' = msgIdx + 1
       ELSE /\ UNCHANGED <<rendererVars, events>>
            /\ msgIdx' = Len(messages.items) + 1
    /\ UNCHANGED <<doneVars, renderer, panelTime, topics, messages, changed, needsRender, pc>>

\* one iteration of the loop of the messages effect: a message whose topic
\* has a datatype goes to renderer.addMessageEvent, which ingests the transform
\* of a TFMessage; a message without one is skipped
MessagesEffectStep ==
    /\ pc = "messages"
    /\ MessagesEffectRuns
    /\ msgIdx <= Len(messages.items)
    /\ LET message == messages.items[msgIdx] IN
       IF message.topic \in topics
       THEN /\ AddTransformMessage(message.child, message.parent, message.stamp, 0)
            /\ events' = Log(events, msgIdx)
       ELSE UNCHANGED <<rendererVars, events>>
    /\ msgIdx' = msgIdx + 1
    /\ UNCHANGED <<doneVars, renderer, panelTime, topics, messages, changed, needsRender, pc>>

\* the end of the loop of the messages effect
MessagesEffectEnd ==
    /\ pc = "messages"
    /\ MessagesEffectRuns
    /\ msgIdx > Len(messages.items)
    /\ needsRender' = TRUE
    /\ pc' = "camera"
    /\ UNCHANGED <<rendererVars, doneVars, renderer, panelTime, topics, messages, changed,
                   msgIdx, events>>

\* the effect that passes the camera state to the renderer
CameraEffect ==
    /\ pc = "camera"
    /\ needsRender' = (needsRender \/ "renderer" \in changed)
    /\ pc' = "render"
    /\ UNCHANGED <<rendererVars, doneVars, renderer, panelTime, topics, messages, changed,
                   msgIdx, events>>

\* the effect without dependencies that renders a frame if requested
RenderEffect ==
    /\ pc = "render"
    /\ IF renderer /\ needsRender
       THEN /\ IF currentTime # NoTime
               THEN FrameHandler(currentTime)
               ELSE UNCHANGED rendererVars
            /\ needsRender' = FALSE
            /\ events' = Log(events, 0)
       ELSE UNCHANGED <<rendererVars, needsRender, events>>
    /\ pc' = "renderDone"
    /\ UNCHANGED <<doneVars, renderer, panelTime, topics, messages, changed, msgIdx>>

\* the effect that invokes the renderDone state when it changed and holds a
\* callback
RenderDoneEffect ==
    /\ pc = "renderDone"
    /\ doneCalls' = IF "renderDone" \in changed /\ renderDone # Undefined
                    THEN doneCalls + 1
                    ELSE doneCalls
    /\ pc' = "idle"
    /\ UNCHANGED <<rendererVars, renderDone, renderer, panelTime, topics, messages, changed,
                   needsRender, msgIdx, events>>

\* Renderer.resizeHandler, between commits
ResizeHandler ==
    /\ pc = "idle"
    /\ renderer
    /\ IF currentTime # NoTime
       THEN FrameHandler(currentTime)
       ELSE UNCHANGED rendererVars
    /\ events' = Log(events, 0)
    /\ UNCHANGED <<doneVars, renderer, panelTime, topics, messages, changed, needsRender, pc, msgIdx>>

\* ------------------------------------------------- root(), step by step
\* root() entered for the frame at index i of frames()
EnterRoot(i) ==
    /\ wIdx' = i
    /\ wCur' = frames[i]
    /\ wVisited' = {frames[i]}
    /\ wpc' = "root"

\* root() returning r for the frame at wIdx: defaultFrameId goes on with the
\* next frame, or is done
ReturnRoot(r) ==
    /\ wRoots' = Append(wRoots, r)
    /\ IF wIdx < Len(frames)
       THEN EnterRoot(wIdx + 1)
       ELSE wpc' = "done" /\ UNCHANGED <<wIdx, wCur, wVisited>>

\* Renderer.defaultFrameId entering its loop over frames()
StartDefaultFrameId ==
    /\ wpc = "idle"
    /\ wRoots' = <<>>
    /\ IF frames = <<>>
       THEN wpc' = "done" /\ UNCHANGED <<wIdx, wCur, wVisited>>
       ELSE EnterRoot(1)
    /\ UNCHANGED notWalk

\* one iteration of root() without the guard against a cycle
RootStep_NoGuard ==
    /\ wpc = "root"
    /\ LET p == latestParent(history[wCur]) IN
       IF p = Undefined
       THEN ReturnRoot([id |-> wCur, cycle |-> FALSE])
       ELSE /\ wCur' = p
            /\ wVisited' = wVisited \cup {p}
            /\ UNCHANGED <<wpc, wIdx, wRoots>>
    /\ UNCHANGED notWalk

\* one iteration of root(): a frame without parent is the root; a parent
\* that was visited is a cycle, reported; otherwise the walk goes to the parent
RootStep ==
    /\ wpc = "root"
    /\ LET p == latestParent(history[wCur]) IN
       IF p = Undefined
       THEN ReturnRoot([id |-> wCur, cycle |-> FALSE])
       ELSE IF p \in wVisited
       THEN ReturnRoot([id |-> wCur, cycle |-> TRUE])
       ELSE /\ wCur' = p
            /\ wVisited' = wVisited \cup {p}
            /\ UNCHANGED <<wpc, wIdx, wRoots>>
    /\ UNCHANGED notWalk

\* Renderer.defaultFrameId returning
ReturnDefaultFrameId ==
    /\ wpc = "done"
    /\ wpc' = "idle"
    /\ wIdx' = 1
    /\ wCur' = Undefined
    /\ wVisited' = {}
    /\ wRoots' = <<>>
    /\ UNCHANGED notWalk

\* ------------------------------------------- ThreeDeeRender subscriptions
\* Set.add on the keys of a Set, kept in insertion order
setAdd(keys, k) == IF k \in Range(keys) THEN keys ELSE Append(keys, k)

\* the loop of the topicsToSubscribe effect over topics, from index i
RECURSIVE subscriptionsFrom(_, _, _, _, _)
subscriptionsFrom(items, i, handlers, vis, subscriptions) ==
    IF i > Len(items) THEN subscriptions
    ELSE LET topic == items[i] IN
         subscriptionsFrom(items, i + 1, handlers, vis,
             IF topic.datatype \in TF_DATATYPES \cup TRANSFORM_STAMPED_DATATYPES
             THEN setAdd(subscriptions, topic.name)
             ELSE IF topic.datatype \in handlers /\ vis[topic.name] # "false"
             THEN setAdd(subscriptions, topic.name)
             ELSE subscriptions)

TopicRank(name) == IndexOf(SortedTopicNames, name)

\* Array.prototype.sort on names: insertion sort by rank
RECURSIVE sortInsert(_, _)
sortInsert(sorted, name) ==
    IF sorted = <<>> THEN <<name>>
    ELSE IF TopicRank(name) < TopicRank(Head(sorted)) THEN <<name>> \o sorted
    ELSE <<Head(sorted)>> \o sortInsert(Tail(sorted), name)

RECURSIVE sort(_)
sort(names) ==
    IF names = <<>> THEN <<>>
    ELSE sortInsert(sort(Tail(names)), Head(names))

\* lodash isEqual of the topicsToSubscribe state and a new array
isEqual(prev, newTopics) == prev.defined /\ prev.items = newTopics

\* onRender: setTopics(renderState.topics) with a new value starts a commit
SetTopics(topicsIn) ==
    /\ spc = "idle"
    /\ topicList' = topicsIn
    /\ spc' = "topicsToSubscribe"
    /\ called' = FALSE
    /\ UNCHANGED <<topicVisible, datatypeHandlers, topicsToSubscribe, subscribeDeps, subscribed>>

\* a change of config.topics starts a commit
SetVisible(name, v) ==
    /\ spc = "idle"
    /\ topicVisible[name] # v
    /\ topicVisible' = [topicVisible EXCEPT ![name] = v]
    /\ spc' = "topicsToSubscribe"
    /\ called' = FALSE
    /\ UNCHANGED <<topicList, datatypeHandlers, topicsToSubscribe, subscribeDeps, subscribed>>

\* the renderer state is set: the datatypeHandlers memo is the renderer's map,
\* with the handler the grid extension registered
SetDatatypeHandlers ==
    /\ spc = "idle"
    /\ datatypeHandlers = {}
    /\ datatypeHandlers' = GRID_DATATYPES
    /\ spc' = "topicsToSubscribe"
    /\ called' = FALSE
    /\ UNCHANGED <<topicList, topicVisible, topicsToSubscribe, subscribeDeps, subscribed>>

\* the topicsToSubscribe effect storing the new array whatever the state holds
TopicsToSubscribeEffect_NoIsEqual ==
    /\ spc = "topicsToSubscribe"
    /\ IF ~topicList.defined
       THEN topicsToSubscribe' = NoList
       ELSE LET subscriptions == subscriptionsFrom(topicList.items, 1, datatypeHandlers,
                                                   topicVisible, <<>>)
                newTopics == sort(subscriptions)
            IN topicsToSubscribe' = [defined |-> TRUE, items |-> newTopics,
                                     ref |-> 1 - topicsToSubscribe.ref]
    /\ spc' = "subscribe"
    /\ UNCHANGED <<topicList, topicVisible, datatypeHandlers, subscribeDeps, subscribed, called>>

\* the topicsToSubscribe effect: undefined without topics, else the sorted
\* names of the subscriptions, the state keeping its array when it is equal
TopicsToSubscribeEffect ==
    /\ spc = "topicsToSubscribe"
    /\ IF ~topicList.defined
       THEN topicsToSubscribe' = NoList
       ELSE LET subscriptions == subscriptionsFrom(topicList.items, 1, datatypeHandlers,
                                                   topicVisible, <<>>)
                newTopics == sort(subscriptions)
            IN topicsToSubscribe' =
                   IF isEqual(topicsToSubscribe, newTopics) THEN topicsToSubscribe
                   ELSE [defined |-> TRUE, items |-> newTopics,
                         ref |-> 1 - topicsToSubscribe.ref]
    /\ spc' = "subscribe"
    /\ UNCHANGED <<topicList, topicVisible, datatypeHandlers, subscribeDeps, subscribed, called>>

\* the subscribe effect: runs when topicsToSubscribe is not the value it saw
\* last, returns without a list, else calls context.subscribe
SubscribeEffect ==
    /\ spc = "subscribe"
    /\ IF topicsToSubscribe # subscribeDeps /\ topicsToSubscribe.defined
       THEN /\ subscribed' = [defined |-> TRUE, items |-> topicsToSubscribe.items]
            /\ called' = TRUE
       ELSE UNCHANGED <<subscribed, called>>
    /\ subscribeDeps' = topicsToSubscribe
    /\ spc' = "idle"
    /\ UNCHANGED <<topicList, topicVisible, datatypeHandlers, topicsToSubscribe>>

\* ------------------------------------------------------ useExtensionLoader
\* ExtensionLoader.uninstallExtension of one loader holding the extensions
\* inst: whether the extension was found, and what the loader holds afterwards
loaderUninstall(inst, id) ==
    [returned |-> id \in inst, installed |-> inst \ {id}]

\* the unified installExtension: the loaders before l rejected, loader l
\* installed the extension
InstallExtension(id, l) ==
    /\ installed' = [installed EXCEPT ![l] = @ \cup {id}]
    /\ UNCHANGED <<uninstalling, uninstalled>>

\* the unified uninstallExtension is called and reaches its first await
StartUninstall(id) ==
    /\ uninstalling = NoCall
    /\ uninstalling' = [id |-> id, next |-> 1]
    /\ UNCHANGED <<installed, uninstalled>>

\* the awaited loader.uninstallExtension(id) settles: rejected (caught and
\* logged) or resolved; the loop goes on to the next loader, returns the truthy
\* result, or runs off its end into the throw
UninstallStep(rejects) ==
    /\ uninstalling.next \in Loaders
    /\ LET l == uninstalling.next
           id == uninstalling.id
           r == loaderUninstall(installed[l], id)
           extension == IF rejects THEN FALSE ELSE r.returned
       IN /\ installed' = IF rejects THEN installed
                          ELSE [installed EXCEPT ![l] = r.installed]
          /\ IF extension
             THEN /\ uninstalled' = [id |-> id, found |-> TRUE, outcome |-> "true"]
                  /\ uninstalling' = NoCall
             ELSE IF l + 1 \in Loaders
             THEN /\ uninstalling' = [uninstalling EXCEPT !.next = l + 1]
                  /\ UNCHANGED uninstalled
             ELSE /\ uninstalled' = [id |-> id, found |-> FALSE, outcome |-> "throws"]
                  /\ uninstalling' = NoCall

\* the Error the unified loader throws past its loop
ErrorOf(op) ==
    IF op = "loadExtension" THEN "Extension not found"
    ELSE IF op = "downloadExtension" THEN "Error downloading extension"
    ELSE "Error installing extension"

\* the unified loadExtension, downloadExtension or installExtension is called
\* with a list of count loaders: it reaches its first await, or with an empty
\* list runs into the throw
StartUnified(op, arg, count) ==
    /\ unifiedCall = NoUnified
    /\ loaderCalls' = <<>>
    /\ IF count = 0
       THEN /\ unifiedCall' = NoUnified
            /\ unifiedResult' = [op |-> op, arg |-> arg, count |-> count,
                                 outcome |-> "rejected", by |-> 0, error |-> ErrorOf(op)]
       ELSE /\ unifiedCall' = [op |-> op, arg |-> arg, count |-> count, next |-> 1]
            /\ unifiedResult' = [NoResult EXCEPT !.op = op, !.arg = arg, !.count = count]
    /\ UNCHANGED installed

\* the unified loader rejecting as soon as a loader rejects
LoaderSettles_RejectFirst(rejects) ==
    /\ unifiedCall.next \in 1..unifiedCall.count
    /\ LET l == unifiedCall.next IN
       /\ loaderCalls' = Append(loaderCalls, [loader |-> l, rejected |-> rejects])
       /\ installed' = IF ~rejects /\ unifiedCall.op = "installExtension"
                       THEN [installed EXCEPT ![l] = @ \cup {unifiedCall.arg}]
                       ELSE installed
       /\ unifiedResult' = IF rejects
                           THEN [unifiedResult EXCEPT !.outcome = "rejected",
                                                      !.error = ErrorOf(unifiedCall.op)]
                           ELSE [unifiedResult EXCEPT !.outcome = "resolved", !.by = l]
       /\ unifiedCall' = NoUnified

\* the awaited call of the loader settles. Resolved: the unified call returns
\* its result. Rejected: the error is caught and logged, and the loop goes on
\* to the next loader or runs off its end into the throw. A loader that
\* resolves installExtension holds the extension afterwards
LoaderSettles(rejects) ==
    /\ unifiedCall.next \in 1..unifiedCall.count
    /\ LET l == unifiedCall.next IN
       /\ loaderCalls' = Append(loaderCalls, [loader |-> l, rejected |-> rejects])
       /\ installed' = IF ~rejects /\ unifiedCall.op = "installExtension"
                       THEN [installed EXCEPT ![l] = @ \cup {unifiedCall.arg}]
                       ELSE installed
       /\ IF ~rejects
          THEN /\ unifiedResult' = [unifiedResult EXCEPT !.outcome = "resolved", !.by = l]
               /\ unifiedCall' = NoUnified
          ELSE IF l < unifiedCall.count
          THEN /\ unifiedCall' = [unifiedCall EXCEPT !.next = l + 1]
               /\ UNCHANGED unifiedResult
          ELSE /\ unifiedResult' = [unifiedResult EXCEPT !.outcome = "rejected",
                                                         !.error = ErrorOf(unifiedCall.op)]
               /\ unifiedCall' = NoUnified

\* ---------------------------------------------------------- specifications
\* Frame selection with preferred names in the tree
SelectIds == {"odom", "map", "a"}

Ingest(ids, stamps, values) ==
    \/ \E c \in ids, p \in ids, s \in stamps, v \in values :
           AddTransformMessage(c, p, s, v) /\ UNCHANGED notRenderer
    \/ \E f \in ids : AddCoordinateFrame(f) /\ UNCHANGED notRenderer

Tick == \E t \in Times : FrameHandler(t) /\ UNCHANGED notRenderer

Next ==
    \/ Ingest(SelectIds, Stamps, {0})
    \/ Tick

Spec == Init /\ [][Next]_vars

\* Frame selection without any preferred name; one stamp, so that every frame
\* has at most one edge and every shape of the parent graph is reached
RootIds == {"a", "b", "c", "d"}

NextRoots ==
    \/ Ingest(RootIds, {1}, {0})
    \/ Tick

SpecRoots == Init /\ [][NextRoots]_vars


\* Pose update of the renderables: "odom" moves below "map", "a" rests there
PoseFrames == {"a", "odom"}

PoseValue(c, s) == IF c = "odom" THEN 2 * (s - 1) ELSE 0

\* the settings a message handler creates a renderable with; they are not
\* read for a topic that has its renderable
InitialVisible(k) == IF k \in DOMAIN renderables THEN {TRUE} ELSE BOOLEAN

InitialFrameLocked(k) == IF k \in DOMAIN renderables THEN {Undefined} ELSE FrameLocked

NextPose ==
    \/ \E c \in PoseFrames, s \in Stamps :
           AddTransformMessage(c, "map", s, PoseValue(c, s)) /\ UNCHANGED notRenderer
    \/ \E t \in Times : SetCurrentTime(t) /\ UNCHANGED notRenderer
    \/ \E k \in Topics, f \in PoseFrames, t \in Times :
           \E v \in InitialVisible(k), l \in InitialFrameLocked(k) :
               HandleMessage(k, f, t, v, l) /\ UNCHANGED notRenderer
    \/ \E k \in Topics, v \in BOOLEAN, l \in FrameLocked :
           HandleSettingsAction(k, v, l) /\ UNCHANGED notRenderer
    \/ AnimationFrame /\ UNCHANGED notRenderer

SpecPose == Init /\ [][NextPose]_vars

\* Ingestion of raw transforms, frame ids present or missing, in any order of
\* their stamps
RawChildIds == {"a", Undefined}

RawParentIds == {"a", "b", Undefined}

NextIngest ==
    \/ \E c \in RawChildIds, p \in RawParentIds, s \in Stamps, v \in Values :
           IngestTransform(c, p, s, v) /\ UNCHANGED notRenderer

SpecIngest == Init /\ [][NextIngest]_vars

\* Retention: a chain of frames whose edges age out of the window
PruneTimes == 1..(MaxStamp + TRANSFORM_STORAGE_TIME_NS + 1)

NextPrune ==
    \/ \E c \in {"a", "b"}, p \in {"b", "c"}, s \in Stamps, v \in Values :
           AddTransformMessage(c, p, s, v) /\ UNCHANGED notRenderer
    \/ \E now \in PruneTimes : Prune(now) /\ UNCHANGED notRenderer

SpecPrune == Init /\ [][NextPrune]_vars

\* Two trees, "odom" below "map" and "a" below "b", and a renderable
ForestFrames == {"odom", "map", "a", "b"}

NextForest ==
    \/ \E s \in Stamps : AddTransformMessage("odom", "map", s, PoseValue("odom", s))
                             /\ UNCHANGED notRenderer
    \/ \E s \in Stamps : AddTransformMessage("a", "b", s, 2) /\ UNCHANGED notRenderer
    \/ \E t \in Times : SetCurrentTime(t) /\ UNCHANGED notRenderer
    \/ \E k \in Topics, f \in ForestFrames, t \in Times :
           HandleMessage(k, f, t, TRUE, Undefined) /\ UNCHANGED notRenderer
    \/ AnimationFrame /\ UNCHANGED notRenderer

SpecForest == Init /\ [][NextForest]_vars

\* Ingestion of transforms with whole, partial, missing and non-finite rotations
Components == {"1", "NaN", Undefined}

RawRotations ==
    [defined : {TRUE}, x : Components, w : Components]
        \cup {[defined |-> FALSE, x |-> Undefined, w |-> Undefined]}

NextMalformed ==
    \/ \E p \in {"b", "c"}, s \in Stamps, v \in Values, r \in RawRotations :
           IngestRotated("a", p, s, v, r) /\ UNCHANGED notRenderer

SpecMalformed == Init /\ [][NextMalformed]_vars

\* Frame selection with a configured render frame: "b" is never ingested
ConfigIds == {"odom", "a"}

RenderIds == ConfigIds \cup {"b"}

NextConfigured ==
    \/ Ingest(ConfigIds, Stamps, {0})
    \/ \E f \in RenderIds : SetRenderFrame(f) /\ UNCHANGED notRenderer
    \/ Tick

SpecConfigured == Init /\ [][NextConfigured]_vars

\* The panel: batches of TFMessages with one transform each, on a topic with a
\* datatype or on one without
PanelTopics == {"/tf", "/other"}

PanelFrames == {"a", "odom"}

PanelMessages == [topic : PanelTopics, child : PanelFrames, parent : {"map"}, stamp : {1}]

RECURSIVE Batches(_)
Batches(n) ==
    IF n = 0 THEN {<<>>}
    ELSE Batches(n - 1) \cup {Append(b, m) : b \in Batches(n - 1), m \in PanelMessages}

CurrentFrames ==
    {NoMessages} \cup {[defined |-> TRUE, items |-> b] : b \in Batches(MaxEdges)}

NextPanel ==
    \/ CreateRenderer /\ UNCHANGED notPanel
    \/ \E t \in Times \cup {NoTime}, ts \in {{}, {"/tf"}}, f \in CurrentFrames :
           OnRender(t, ts, f) /\ UNCHANGED notPanel
    \/ CurrentTimeEffect /\ UNCHANGED notPanel
    \/ MessagesEffectSkip /\ UNCHANGED notPanel
    \/ MessagesEffectStep /\ UNCHANGED notPanel
    \/ MessagesEffectEnd /\ UNCHANGED notPanel
    \/ CameraEffect /\ UNCHANGED notPanel
    \/ RenderEffect /\ UNCHANGED notPanel
    \/ RenderDoneEffect /\ UNCHANGED notPanel
    \/ ResizeHandler /\ UNCHANGED notPanel

SpecPanel == Init /\ [][NextPanel]_vars

\* Counting the roots over every parent graph of three frames, cycles included;
\* transforms arrive between the calls, and a running loop goes on
WalkIds == {"a", "b", "c"}

NextWalk ==
    \/ wpc = "idle" /\ Ingest(WalkIds, {1}, {0})
    \/ StartDefaultFrameId
    \/ RootStep
    \/ ReturnDefaultFrameId

SpecWalk == Init /\ [][NextWalk]_vars /\ WF_vars(RootStep)

\* the selection with a render frame that a caller may configure, b never
\* being a frame of the tree; one stamp, a root changing by getting a parent
FixedRenderIds == {"a", "b"}

NextFixed ==
    \/ Ingest(SelectIds, {1}, {0})
    \/ \E f \in FixedRenderIds : SetRenderFrame(f) /\ UNCHANGED notRenderer
    \/ Tick

SpecFixed == Init /\ [][NextFixed]_vars

\* renderables that are hidden and shown again, with errors of their own, in
\* a tree where odom moves and a is unknown
NextHidden ==
    \/ \E s \in Stamps : AddTransformMessage("odom", "map", s, PoseValue("odom", s))
                             /\ UNCHANGED notRenderer
    \/ \E t \in Times : SetCurrentTime(t) /\ UNCHANGED notRenderer
    \/ \E k \in Topics, f \in PoseFrames, t \in Times :
           \E v \in InitialVisible(k) :
               HandleMessage(k, f, t, v, "false") /\ UNCHANGED notRenderer
    \/ \E k \in Topics, v \in BOOLEAN :
           HandleSettingsAction(k, v, "false") /\ UNCHANGED notRenderer
    \/ \E k \in Topics : AddTopicError(k) /\ UNCHANGED notRenderer
    \/ AnimationFrame /\ UNCHANGED notRenderer

SpecHidden == Init /\ [][NextHidden]_vars

\* frames of the animation loop, before and after the first time, with a
\* render frame that a caller may configure, b never being a frame of the tree
FrameRenderIds == {"odom", "b"}

NextFrame ==
    \/ \E s \in Stamps : AddTransformMessage("odom", "map", s, PoseValue("odom", s))
                             /\ UNCHANGED notRenderer
    \/ \E t \in Times : SetCurrentTime(t) /\ UNCHANGED notRenderer
    \/ \E k \in Topics, f \in PoseFrames, t \in Times :
           HandleMessage(k, f, t, TRUE, "false") /\ UNCHANGED notRenderer
    \/ \E f \in FrameRenderIds : SetRenderFrame(f) /\ UNCHANGED notRenderer
    \/ AnimationFrame /\ UNCHANGED notRenderer

SpecFrame == Init /\ [][NextFrame]_vars

\* messages of three datatypes, with and without a header, the TFMessages with
\* up to two transforms, and handlers registered for them once or repeatedly
MessageHeaders ==
    {[defined |-> FALSE, frame_id |-> Undefined], [defined |-> TRUE, frame_id |-> Undefined]}

RawTransforms ==
    {[child |-> "a", parent |-> "odom", stamp |-> 1, value |-> 0],
     [child |-> "b", parent |-> Undefined, stamp |-> 1, value |-> 0]}

TransformArrays ==
    {<<>>} \cup {<<x>> : x \in RawTransforms}
           \cup {<<x, y>> : x \in RawTransforms, y \in RawTransforms}

Messages ==
    [header : MessageHeaders, datatype : TF_DATATYPES, child : {Undefined},
     transforms : TransformArrays]
        \cup [header : [defined : {TRUE}, frame_id : {"odom"}],
              datatype : TRANSFORM_STAMPED_DATATYPES, child : {"a"},
              transforms : {<<>>}]
        \cup [header : [defined : {TRUE}, frame_id : {"map"}],
              datatype : GRID_DATATYPES, child : {Undefined}, transforms : {<<>>}]

\* the subscriptions of two scene extensions
Subscriptions ==
    {[datatypes |-> TF_DATATYPES, handler |-> "h1"],
     [datatypes |-> TF_DATATYPES \cup GRID_DATATYPES, handler |-> "h2"]}

NextEvent ==
    \/ \E x \in Subscriptions :
           AddDatatypeSubscriptions(x.datatypes, x.handler) /\ UNCHANGED notEvent
    \/ \E m \in Messages : AddMessageEvent(m) /\ UNCHANGED notEvent

SpecEvent == Init /\ [][NextEvent]_vars

\* the unified loader over a list of no, one or two loaders, which resolve or
\* reject as they please
LoaderCounts == 0..Cardinality(Loaders)

NextUnified ==
    \/ \E op \in Operations, arg \in ExtensionIds, n \in LoaderCounts :
           StartUnified(op, arg, n) /\ UNCHANGED notUnified
    \/ \E rejects \in BOOLEAN : LoaderSettles(rejects) /\ UNCHANGED notUnified

SpecUnified == Init /\ [][NextUnified]_vars

\* the tree fed by transforms and frames alone, for the cached frame list
NextList == Ingest(SelectIds, Stamps, {0})

SpecList == Init /\ [][NextList]_vars

\* the extension loaders: extensions are installed and uninstalled through
\* the unified loader
NextLoaders ==
    \/ \E id \in ExtensionIds, l \in Loaders : InstallExtension(id, l) /\ UNCHANGED notLoader
    \/ \E id \in ExtensionIds : StartUninstall(id) /\ UNCHANGED notLoader
    \/ \E rejects \in BOOLEAN : UninstallStep(rejects) /\ UNCHANGED notLoader

SpecLoaders == Init /\ [][NextLoaders]_vars

\* the subscriptions of the panel: topics, visibility and renderer change,
\* and the two subscription effects run for each change
AvailableTopics ==
    [name : {"/a"}, datatype : {"tf", "grid", "other"}]
        \cup [name : {"/b"}, datatype : {"stamped", "grid", "other"}]

RECURSIVE TopicLists(_)
TopicLists(n) ==
    IF n = 0 THEN {<<>>}
    ELSE TopicLists(n - 1) \cup
         {Append(l, t) : l \in TopicLists(n - 1), t \in AvailableTopics}

RenderStateTopics == {NoTopics} \cup {[defined |-> TRUE, items |-> l] : l \in TopicLists(MaxTopics)}

NextSubscribe ==
    \/ \E ts \in RenderStateTopics : SetTopics(ts) /\ UNCHANGED notSubscribe
    \/ \E n \in TopicNames, v \in Visible : SetVisible(n, v) /\ UNCHANGED notSubscribe
    \/ SetDatatypeHandlers /\ UNCHANGED notSubscribe
    \/ TopicsToSubscribeEffect /\ UNCHANGED notSubscribe
    \/ SubscribeEffect /\ UNCHANGED notSubscribe

SpecSubscribe == Init /\ [][NextSubscribe]_vars

\* ------------------------------------------------------------------ claims
\* a step in which frameHandler has called startFrame on the scene extensions
StartFrameStep ==
    /\ AnimationFrame
    /\ renderFrameId' # Undefined
    /\ fixedFrameId' # Undefined

Preferred == Range(DEFAULT_FRAME_IDS)

PriorityOf(id) == CHOOSE i \in 1..Len(DEFAULT_FRAME_IDS) : DEFAULT_FRAME_IDS[i] = id

\* C2: when a preferred name is a frame of the tree, defaultFrameId is the
\* present preferred name of highest priority, whatever the insertion order of
\* the frames and the shape of the tree
C2_PreferredByPriority ==
    (Preferred \cap Range(frames) # {}) =>
        LET r == defaultFrameId(frames, history) IN
        /\ r \in Preferred \cap Range(frames)
        /\ \A q \in Preferred \cap Range(frames) : PriorityOf(r) <= PriorityOf(q)

\* C2 witness: "map" was inserted before "odom", "odom" has a parent, and a
\* tick has chosen "odom"
C2_Witness ==
    /\ hasFrame(frames, "map") /\ hasFrame(frames, "odom")
    /\ IndexOf(frames, "map") < IndexOf(frames, "odom")
    /\ latestParent(history["odom"]) # Undefined
    /\ renderFrameId = "odom"

RootIdOf(f) == root(history, f).id

MembersOf(r) == {i \in 1..Len(frames) : RootIdOf(frames[i]) = r}

FirstSeen(r) == CHOOSE i \in MembersOf(r) : \A j \in MembersOf(r) : i <= j

KnownRoots == {RootIdOf(frames[i]) : i \in 1..Len(frames)}

\* C3: with no preferred name in a non-empty tree, defaultFrameId is a root
\* with the greatest number of frames under it, and among such roots the one
\* whose first frame comes earliest in the iteration order; undefined on an
\* empty tree
C3_MostPopulatedRoot ==
    (Preferred \cap Range(frames) = {}) =>
        LET r == defaultFrameId(frames, history) IN
        IF frames = <<>> THEN r = Undefined
        ELSE /\ r \in KnownRoots
             /\ \A q \in KnownRoots :
                    /\ Cardinality(MembersOf(q)) <= Cardinality(MembersOf(r))
                    /\ (q # r /\ Cardinality(MembersOf(q)) = Cardinality(MembersOf(r)))
                          => FirstSeen(r) < FirstSeen(q)

\* C3 witness: two roots tie, the chosen one comes later in the iteration
\* order than the other root but has a descendant that comes first
C3_Witness ==
    /\ renderFrameId # Undefined
    /\ renderFrameId = defaultFrameId(frames, history)
    /\ \E q \in KnownRoots :
          /\ q # renderFrameId
          /\ Cardinality(MembersOf(q)) = Cardinality(MembersOf(renderFrameId))
          /\ Cardinality(MembersOf(q)) = 2
          /\ IndexOf(frames, q) < IndexOf(frames, renderFrameId)

\* C4 as stated: renderFrameId equals fixedFrameId whenever both are defined
C4_RenderEqualsFixed ==
    (renderFrameId # Undefined /\ fixedFrameId # Undefined) => renderFrameId = fixedFrameId

\* C4 amended: renderFrameId equals fixedFrameId whenever both are defined and
\* the render frame has no parent
C4_RenderEqualsFixedAtRoot ==
    (/\ renderFrameId # Undefined
     /\ fixedFrameId # Undefined
     /\ latestParent(history[renderFrameId]) = Undefined) => renderFrameId = fixedFrameId

\* C4 witness: the chosen render frame is the parentless root of other frames
C4_Witness ==
    /\ renderFrameId # Undefined
    /\ fixedFrameId = renderFrameId
    /\ latestParent(history[renderFrameId]) = Undefined
    /\ \E f \in FrameIds : latestParent(history[f]) = renderFrameId

C7_ReferencedFramesExist ==
    [][/\ Range(frames) \subseteq Range(frames')
       /\ lastTf' # NoTf => {lastTf'.child, lastTf'.parent} \subseteq Range(frames')]_vars

\* C7 witness: the parent of the last transform has never been a child
C7_Witness ==
    /\ lastTf # NoTf
    /\ lastTf.child # lastTf.parent
    /\ history[lastTf.parent] = <<>>
    /\ hasFrame(frames, lastTf.parent)
    /\ Len(frames) >= 3

MaxStampOf(h) == CHOOSE s \in {h[i].stamp : i \in 1..Len(h)} : \A j \in 1..Len(h) : h[j].stamp <= s

ParentAtGreatestStamp(h) == (CHOOSE e \in Range(h) : e.stamp = MaxStampOf(h)).parent

\* the messages passed to addMessageEvent before the first animationFrame of
\* the commit
PassedBeforeFrame ==
    {events[i] : i \in {j \in 1..Len(events) :
                          events[j] # 0 /\ \A k \in 1..j : events[k] # 0}}

\* a commit with messages in which animationFrame has run
BatchRendered ==
    /\ messages.defined
    /\ changed \cap {"messages", "renderer", "topics"} # {}
    /\ pc = "idle"
    /\ \E i \in 1..Len(events) : events[i] = 0

\* animationFrame has not run between two addMessageEvent calls of a commit
NoFrameBetweenMessages ==
    \A i \in 1..Len(events), j \in 1..Len(events) :
        (i < j /\ events[i] = 0) => events[j] = 0

\* C8 as stated: every message of the batch is passed to addMessageEvent
\* before animationFrame runs for the tick, and animationFrame never runs
\* between two addMessageEvent calls of the batch
C8_EveryMessageBeforeFrame ==
    /\ BatchRendered => PassedBeforeFrame = 1..Len(messages.items)
    /\ NoFrameBetweenMessages

\* C8 amended: every message of the batch whose topic has a datatype in the
\* panel's topics is passed to addMessageEvent, and its transform is in the
\* tree, before animationFrame runs for the tick; animationFrame never runs
\* between two addMessageEvent calls of the batch
C8_KnownMessagesBeforeFrame ==
    /\ BatchRendered =>
          /\ PassedBeforeFrame =
                {i \in 1..Len(messages.items) : messages.items[i].topic \in topics}
          /\ \A i \in PassedBeforeFrame :
                {messages.items[i].child, messages.items[i].parent} \subseteq Range(frames)
    /\ NoFrameBetweenMessages

\* C8 witness: both messages of a batch have been ingested, one after the
\* other, and the frames resolved after them
C8_Witness ==
    /\ BatchRendered
    /\ events = <<1, 2, 0>>
    /\ fixedFrameId # Undefined
    /\ messages.items[1].child # messages.items[2].child

ParentOf(g) == latestParent(history[g])

RECURSIVE Ancestors(_, _)
Ancestors(S, n) ==
    IF n = 0 THEN S
    ELSE Ancestors(S \cup ({ParentOf(g) : g \in S} \ {Undefined}), n - 1)

\* a frame and the frames of its parent chain
ChainOf(f) == Ancestors({f}, Cardinality(FrameIds))

\* C10: root() returns for every frame, also when the latest parents form a
\* cycle, so that defaultFrameId, which calls it on every frame, returns; a
\* cycle is reported for the frames whose chain runs into it, and every other
\* frame gets a root without parent
C10_RootTerminates ==
    /\ (wpc = "root") ~> (wpc = "done")
    /\ [](wpc = "done" =>
            /\ Len(wRoots) = Len(frames)
            /\ \A i \in 1..Len(frames) :
                  /\ wRoots[i] = root(history, frames[i])
                  /\ wRoots[i].cycle <=> \A g \in ChainOf(frames[i]) : ParentOf(g) # Undefined
                  /\ wRoots[i].id \in ChainOf(frames[i])
                  /\ ~wRoots[i].cycle => latestParent(history[wRoots[i].id]) = Undefined)

\* C10 witness: defaultFrameId is done on a tree with two frames on a cycle
\* and a frame outside of it
C10_Witness ==
    /\ wpc = "done"
    /\ Len(wRoots) = 3
    /\ \E i, j \in 1..3 : wRoots[i].cycle /\ ~wRoots[j].cycle

\* C11: a transform whose child and parent ids are equal, as the one ingested
\* for a message missing both ids, adds no edge: every history, and so every
\* parent, is unchanged, and no frame ever has an edge to itself
C11_SelfParentRejected ==
    /\ [](\A f \in FrameIds : \A e \in Range(history[f]) : e.parent # f)
    /\ [][(\E s \in Stamps, v \in Values : IngestTransform(Undefined, Undefined, s, v))
             => (lastTf'.child = "" /\ lastTf'.parent = "")]_vars
    /\ [][(lastTf' # lastTf /\ lastTf'.child = lastTf'.parent) => history' = history]_vars

\* C11 witness: a message without frame ids was ingested into a tree that has
\* an edge; the frame "" exists and has no edge
C11_Witness ==
    /\ lastTf # NoTf
    /\ lastTf.child = "" /\ lastTf.parent = ""
    /\ hasFrame(frames, "")
    /\ history[""] = <<>>
    /\ TotalEdges >= 1

EdgeOf(tf) == [stamp |-> tf.stamp, parent |-> tf.parent, value |-> tf.value]

\* C12: the edges of every frame are in non-decreasing order of their stamps,
\* and every transform between two different frames is stored in the child's
\* history, whether its stamp is newer or older than the stored ones
C12_HistorySorted ==
    /\ [](\A f \in FrameIds : \A i \in 1..Len(history[f]), j \in 1..Len(history[f]) :
              i < j => history[f][i].stamp <= history[f][j].stamp)
    /\ [][(lastTf' # lastTf /\ lastTf'.child # lastTf'.parent)
             => EdgeOf(lastTf') \in Range(history'[lastTf'.child])]_vars

\* C12 witness: the transform ingested last is older than a stored edge of its
\* child and stands before it
C12_Witness ==
    /\ lastTf # NoTf
    /\ lastTf.child # lastTf.parent
    /\ Len(history[lastTf.child]) = 2
    /\ history[lastTf.child][1] = EdgeOf(lastTf)
    /\ history[lastTf.child][2].stamp > lastTf.stamp

\* every pose that resolves between two frames at a render time
PosesOf(fs, hist) ==
    [q \in FrameIds \X FrameIds \X Times |-> resolvePose(fs, hist, q[1], q[2], q[3])]

\* C13: a transform identical to a stored edge leaves the child's history, its
\* parent and every resolved pose unchanged; a different transform at a stored
\* stamp replaces that edge; no frame holds two edges with the same stamp
C13_RedeliveryIdempotent ==
    /\ [](\A f \in FrameIds : \A i \in 1..Len(history[f]), j \in 1..Len(history[f]) :
              i # j => history[f][i].stamp # history[f][j].stamp)
    /\ [][(lastTf' # lastTf /\ lastTf'.found = "same") =>
             /\ history' = history
             /\ PosesOf(frames', history') = PosesOf(frames, history)]_vars
    /\ [][(lastTf' # lastTf /\ lastTf'.found = "other" /\ lastTf'.child # lastTf'.parent) =>
             LET c == lastTf'.child IN
             /\ Len(history'[c]) = Len(history[c])
             /\ EdgeOf(lastTf') \in Range(history'[c])
             /\ \A e \in Range(history[c]) : e.stamp # lastTf'.stamp => e \in Range(history'[c])]_vars

\* C13 witness: a transform identical to the only edge of its child was
\* delivered again, in a tree of three frames
C13_Witness ==
    /\ lastTf.found = "same"
    /\ lastTf.child # lastTf.parent
    /\ history[lastTf.child] = <<EdgeOf(lastTf)>>
    /\ TotalEdges = 1
    /\ Len(frames) = 3

\* two frames under the same root, neither on a cycle
Connected(hist, f, g) ==
    /\ ~root(hist, f).cycle /\ ~root(hist, g).cycle
    /\ root(hist, f).id = root(hist, g).id

\* C14: a frame that has an edge keeps one through every insertion and prune;
\* a prune at now keeps of each frame its most recent edge and the edges not
\* older than now minus the retention window, drops the others, and leaves
\* every pose between connected frames resolvable at now
C14_PruneKeepsLatest ==
    /\ [][\A f \in FrameIds : history[f] # <<>> => history'[f] # <<>>]_vars
    /\ [][\A now \in PruneTimes : Prune(now) =>
             /\ \A f \in FrameIds : history[f] # <<>> =>
                   /\ history'[f][Len(history'[f])] = history[f][Len(history[f])]
                   /\ Range(history'[f]) =
                         {history[f][i] : i \in {j \in 1..Len(history[f]) :
                             \/ j = Len(history[f])
                             \/ history[f][j].stamp >= now - TRANSFORM_STORAGE_TIME_NS}}
             /\ \A f \in Range(frames), g \in Range(frames) :
                   Connected(history, f, g) => resolvePose(frames', history', f, g, now).ok]_vars

\* C14 witness: the transform ingested last, older than the window, was
\* pruned from the history of its child, which keeps its most recent edge
C14_Witness ==
    /\ lastTf # NoTf
    /\ lastTf.child # lastTf.parent
    /\ EdgeOf(lastTf) \notin Range(history[lastTf.child])
    /\ Len(history[lastTf.child]) = 1
    /\ history[lastTf.child][1].stamp > lastTf.stamp
    /\ Len(frames) = 3

\* two frames of the tree, neither on a cycle, whose chains share no frame
Disconnected(f, g) ==
    /\ hasFrame(frames, f) /\ hasFrame(frames, g)
    /\ \E r \in ChainOf(f) : ParentOf(r) = Undefined
    /\ \E r \in ChainOf(g) : ParentOf(r) = Undefined
    /\ ChainOf(f) \cap ChainOf(g) = {}

\* C15: resolvePose between two known frames under different roots fails as
\* "disconnected frames" at every time and gives no pose; a renderable in a
\* frame disconnected from the fixed frame keeps its pose and gets the error
C15_DisconnectedFails ==
    /\ [](\A f \in Range(frames), g \in Range(frames), t \in Times :
              Disconnected(f, g) =>
                  resolvePose(frames, history, f, g, t) = Failure("disconnected frames"))
    /\ [][StartFrameStep =>
             \A k \in DOMAIN renderables :
                 (renderables[k].visible /\ Disconnected(renderables[k].frameId, fixedFrameId')) =>
                     /\ renderables'[k].pose = renderables[k].pose
                     /\ <<k, MISSING_TRANSFORM>> \in errors']_vars

\* C15 witness: a renderable that had a pose in the render frame was moved to
\* a frame under another root, and the tick after left it the pose and the error
C15_Witness ==
    /\ fixedFrameId = "map"
    /\ \E k \in DOMAIN renderables :
          /\ renderables[k].frameId = "a"
          /\ Disconnected("a", fixedFrameId)
          /\ history["a"] # <<>>
          /\ renderables[k].pose # 0
          /\ <<k, MISSING_TRANSFORM>> \in errors

\* a raw rotation with a non-finite component, or a partial one whose
\* components are all missing or 0
RawMalformed(r) ==
    /\ r.defined
    /\ \/ "NaN" \in {r.x, r.w}
       \/ {r.x, r.w} \subseteq {"0", Undefined}

\* the poses between the frames of a set at the render times
PosesAmong(S, fs, hist) ==
    [q \in S \X S \X Times |-> resolvePose(fs, hist, q[1], q[2], q[3])]

C9_ParentByGreatestStamp ==
    /\ [](\A f \in FrameIds :
            IF history[f] = <<>>
            THEN latestParent(history[f]) = Undefined /\ root(history, f) = [id |-> f, cycle |-> FALSE]
            ELSE latestParent(history[f]) = ParentAtGreatestStamp(history[f]))
    /\ [][(lastTf' # lastTf /\ lastTf'.child # lastTf'.parent) =>
            LET c == lastTf'.child
                newer == \E e \in Range(history[c]) : e.stamp > lastTf'.stamp
            IN latestParent(history'[c]) =
                   IF newer THEN latestParent(history[c]) ELSE lastTf'.parent]_vars

\* C9 witness: the edge received last is older than a stored edge of the same
\* child and names another parent than the current one
C9_Witness ==
    /\ lastTf # NoTf
    /\ lastTf.child # lastTf.parent
    /\ Len(history[lastTf.child]) = 2
    /\ history[lastTf.child][1].stamp = lastTf.stamp
    /\ history[lastTf.child][1].parent = lastTf.parent
    /\ latestParent(history[lastTf.child]) # lastTf.parent
    /\ root(history, lastTf.child).id = latestParent(history[lastTf.child])

\* C1: after startFrame, a visible renderable has the MISSING_TRANSFORM error
\* at its settings path if and only if its pose did not resolve on this tick;
\* so a tick on which it resolves removes an error of an earlier tick
C1_MissingTransformIffFailed ==
    [][StartFrameStep =>
         \A k \in DOMAIN renderables :
             renderables[k].visible =>
                 (<<k, MISSING_TRANSFORM>> \in errors'
                    <=> ~updatePose(frames, history, renderFrameId', fixedFrameId',
                                    renderables[k].frameId, currentTime,
                                    srcTimeOf(renderables[k], currentTime)).ok)]_vars

\* C1 witness: a visible renderable carries the error after a tick, its frame
\* not being in the tree
C1_Witness ==
    /\ fixedFrameId # Undefined
    /\ \E k \in DOMAIN renderables :
          /\ renderables[k].visible
          /\ ~hasFrame(frames, renderables[k].frameId)
          /\ <<k, MISSING_TRANSFORM>> \in errors

\* the source time the claim names for a renderable
ClaimedSrcTime(r, time) ==
    IF r.frameLocked \in {"true", Undefined} THEN time ELSE r.messageTime

\* the pose of a frame in the render frame, the frame's side taken at srcTime
\* and the render frame's side at time
PoseAt(frameId, renderId, fixedId, time, srcTime) ==
    resolvePose(frames, history, frameId, fixedId, srcTime).value
        - resolvePose(frames, history, renderId, fixedId, time).value

\* C6: a visible renderable whose pose resolves is placed with its own frame
\* taken at the current render time when frameLocked is true or unset and at
\* its messageTime when frameLocked is false, and with the render frame taken
\* at the current render time
C6_SourceTime ==
    [][StartFrameStep =>
         \A k \in DOMAIN renderables :
             (renderables[k].visible /\ <<k, MISSING_TRANSFORM>> \notin errors') =>
                 renderables'[k].pose =
                     PoseAt(renderables[k].frameId, renderFrameId', fixedFrameId', currentTime,
                            ClaimedSrcTime(renderables[k], currentTime))]_vars

\* C6 witness: a renderable that is not frame locked has the pose of its
\* messageTime, which is not the pose of the current time
C6_Witness ==
    /\ fixedFrameId # Undefined
    /\ currentTime # NoTime
    /\ \E k \in DOMAIN renderables :
          LET r == renderables[k] IN
          /\ r.visible
          /\ r.frameLocked = "false"
          /\ <<k, MISSING_TRANSFORM>> \notin errors
          /\ r.pose = PoseAt(r.frameId, renderFrameId, fixedFrameId, currentTime, r.messageTime)
          /\ r.pose # PoseAt(r.frameId, renderFrameId, fixedFrameId, currentTime, currentTime)
          /\ r.pose # PoseAt(r.frameId, renderFrameId, fixedFrameId, r.messageTime, r.messageTime)

\* C17: a unified uninstallExtension call that has ended returned true when a
\* loader found and uninstalled the extension, and returned false when none did
C17_UninstallReportsFound ==
    uninstalled.outcome # "none" =>
        uninstalled.outcome = (IF uninstalled.found THEN "true" ELSE "false")

\* C18: the cached coordinateFrameList always equals frameList() of the tree;
\* an addTransformMessage call recomputes it and emits one transformTreeUpdated
\* event when the parent or the child frame was new or addTransform reported a
\* change, and otherwise emits nothing and leaves the list as it was
C18_FrameListFresh ==
    /\ [](coordinateFrameList = frameList(frames, history))
    /\ [][(/\ lastTf'.child \in FrameIds
            /\ AddTransformMessage(lastTf'.child, lastTf'.parent, lastTf'.stamp, lastTf'.value)) =>
            LET tf == lastTf'
                res == addTransform(frames, history, tf.child, tf.parent, tf.stamp, tf.value)
            IN IF \/ ~hasFrame(frames, tf.parent)
                  \/ ~hasFrame(frames, tf.child)
                  \/ res.updated
               THEN /\ emitted' = 1
                    /\ recomputed'
                    /\ coordinateFrameList' = frameList(frames', history')
               ELSE /\ emitted' = 0
                    /\ ~recomputed'
                    /\ coordinateFrameList' = coordinateFrameList]_vars

\* a was the child of odom and is re-parented to map, all three frames being
\* known: the list is recomputed for the change addTransform reports
C18_Witness ==
    /\ frames = <<"map", "a", "odom">>
    /\ lastTf = [child |-> "a", parent |-> "map", stamp |-> 2, value |-> 0, found |-> "none"]
    /\ Len(history["a"]) = 2
    /\ history["a"][1].parent = "odom"
    /\ emitted = 1
    /\ recomputed
    /\ coordinateFrameList = <<[value |-> "a", root |-> "map"],
                               [value |-> "map", root |-> "map"],
                               [value |-> "odom", root |-> "odom"]>>

\* C19: the done callback of an onRender call is invoked once, and only when
\* the effects of the commit it started have run, the render effect with its
\* animationFrame among them
C19_DoneOnceAfterRender ==
    /\ doneCalls <= 1
    /\ doneCalls = 1 => pc = "idle"
    /\ (pc = "idle" /\ doneCalls # NoDone) => doneCalls = 1

\* the names the claim lists: topics with a transform datatype, and topics with
\* a handled datatype that are not toggled off
Subscribable ==
    {t.name : t \in {x \in Range(topicList.items) :
        \/ x.datatype \in TF_DATATYPES \cup TRANSFORM_STAMPED_DATATYPES
        \/ x.datatype \in datatypeHandlers /\ topicVisible[x.name] # "false"}}

SortedDuplicateFree(l) ==
    \A i, j \in 1..Len(l) : i < j => TopicRank(l[i]) < TopicRank(l[j])

\* the list is what the claim says, once the effects of a commit have run with
\* topics
ListAsClaimed ==
    (spc = "idle" /\ topicList.defined) =>
        /\ topicsToSubscribe.defined
        /\ SortedDuplicateFree(topicsToSubscribe.items)
        /\ Range(topicsToSubscribe.items) = Subscribable
        /\ subscribed = [defined |-> TRUE, items |-> topicsToSubscribe.items]

\* C20 as stated: the list is the sorted, duplicate-free list of the names of
\* the topics with a transform datatype or a handled datatype not toggled off;
\* context.subscribe is called only with a list that differs from the list
\* subscribed before, and never while topics is undefined
C20_SubscribeOnlyNewList ==
    /\ []ListAsClaimed
    /\ [][(spc = "subscribe" /\ called') =>
             /\ topicList.defined
             /\ subscribed.defined => subscribed'.items # subscribed.items]_vars

\* C20, amended: context.subscribe is called only with a list that differs from
\* what the topicsToSubscribe state held before, which is undefined after a
\* commit without topics
C20_SubscribeOnlyNewState ==
    /\ []ListAsClaimed
    /\ [][(spc = "subscribe" /\ called') =>
             /\ topicList.defined
             /\ subscribed' = [defined |-> TRUE, items |-> topicsToSubscribe.items]
             /\ ~isEqual(subscribeDeps, topicsToSubscribe.items)]_vars

\* /b is listed twice, as a transform topic toggled off and as a grid topic,
\* before /a, a grid topic left visible: both are subscribed, sorted, once
C20_Witness ==
    /\ spc = "idle"
    /\ topicList.defined
    /\ Len(topicList.items) = 2
    /\ topicList.items[1] = [name |-> "/b", datatype |-> "stamped"]
    /\ topicList.items[2] = [name |-> "/a", datatype |-> "grid"]
    /\ topicVisible["/b"] = "false"
    /\ topicVisible["/a"] = Undefined
    /\ datatypeHandlers = GRID_DATATYPES
    /\ called
    /\ subscribed = [defined |-> TRUE, items |-> <<"/a", "/b">>]

\* C21: startFrame, for a renderable that is not visible, clears every error
\* at its settings path, does not call updatePose, leaves its pose as it was
\* and adds no MISSING_TRANSFORM error
C21_HiddenSkipped ==
    [][StartFrameStep =>
         \A k \in DOMAIN renderables :
             ~renderables[k].visible =>
                 /\ {e \in errors' : e[1] = k} = {}
                 /\ [call |-> "updatePose", path |-> k] \notin Range(frameCalls')
                 /\ renderables'[k].pose = renderables[k].pose
                 /\ <<k, MISSING_TRANSFORM>> \notin errors']_vars

\* C21 witness: the last tick cleared the path of a hidden renderable, which
\* keeps a pose of an earlier tick, not the one its frame resolves to now
C21_Witness ==
    /\ fixedFrameId # Undefined
    /\ currentTime # NoTime
    /\ \E k \in DOMAIN renderables :
          LET r == renderables[k]
              res == updatePose(frames, history, renderFrameId, fixedFrameId, r.frameId,
                                currentTime, srcTimeOf(r, currentTime))
          IN /\ ~r.visible
             /\ [call |-> "clearPath", path |-> k] \in Range(frameCalls)
             /\ {e \in errors : e[1] = k} = {}
             /\ res.ok
             /\ r.pose # res.value

\* C22: once renderFrameId is assigned, no ingestion of transforms or frames
\* and no tick changes it, also when the default frame has become another
C22_RenderFrameKept ==
    [][renderFrameId # Undefined => renderFrameId' = renderFrameId]_vars

\* C22 witness: map was chosen, then became a child of odom, which a later
\* tick took as the fixed frame; odom is the default frame now
C22_Witness ==
    /\ renderFrameId = "map"
    /\ fixedFrameId = "odom"
    /\ defaultFrameId(frames, history) = "odom"

\* what C23 says of the frame ids that a call of _updateFrames leaves
FixedAsClaimed(renderId, fixedId) ==
    IF renderId = Undefined \/ ~hasFrame(frames, renderId)
    THEN fixedId = Undefined
    ELSE /\ fixedId \in ChainOf(renderId)
         /\ IF \E g \in ChainOf(renderId) : ParentOf(g) = Undefined
            THEN ParentOf(fixedId) = Undefined
            ELSE fixedId = root(history, renderId).id

\* C23: after _updateFrames, fixedFrameId is undefined when renderFrameId is
\* undefined or names no frame of the tree, and is otherwise the root of the
\* render frame: the frame of its parent chain that has no parent, or what
\* root() returns on a chain that runs into a cycle. This holds of every call
\* in a frame, and of a call that would leave both ids as they are
C23_FixedIsRootOfRender ==
    /\ [][Tick => FixedAsClaimed(renderFrameId', fixedFrameId')]_vars
    /\ [](updateFrames(frames, history, renderFrameId, fixedFrameId)
             = [render |-> renderFrameId, fixed |-> fixedFrameId]
          => FixedAsClaimed(renderFrameId, fixedFrameId))

\* C23 witness: a was rendered as its own root, became a child of odom, and
\* odom a child of map, which is the fixed frame now
C23_Witness ==
    /\ renderFrameId = "a"
    /\ fixedFrameId = "map"
    /\ ParentOf("a") = "odom"
    /\ ParentOf("odom") = "map"

\* the calls of one frame as C24 has them: "startFrame" first and once; with
\* both frame ids defined the startFrame of the scene extensions, which
\* reaches every renderable, and "endFrame" last; otherwise nothing more, the
\* renderables and their errors staying as they were
FrameAsClaimed ==
    /\ frameCalls'[1] = Emit("startFrame")
    /\ \A i \in 2..Len(frameCalls') : frameCalls'[i] # Emit("startFrame")
    /\ IF renderFrameId' # Undefined /\ fixedFrameId' # Undefined
       THEN /\ frameCalls'[Len(frameCalls')] = Emit("endFrame")
            /\ \A k \in DOMAIN renderables :
                  \E i \in 2..(Len(frameCalls') - 1) : frameCalls'[i].path = k
       ELSE /\ frameCalls' = <<Emit("startFrame")>>
            /\ UNCHANGED sceneVars

\* C24: frameHandler emits "startFrame" on every call; it calls startFrame of
\* the scene extensions and emits "endFrame" only with renderFrameId and
\* fixedFrameId both defined after _updateFrames, and otherwise returns after
\* "startFrame" without resolving a pose. animationFrame does nothing while
\* currentTime is undefined: no frame has run before the first time
C24_FrameEvents ==
    /\ [][AnimationFrame => FrameAsClaimed]_vars
    /\ [](frameCalls # <<>> =>
             /\ frameCalls[1] = Emit("startFrame")
             /\ Emit("endFrame") \in Range(frameCalls)
                    <=> (renderFrameId # Undefined /\ fixedFrameId # Undefined))
    /\ [](currentTime = NoTime => frameCalls = <<>> /\ fixedFrameId = Undefined)

\* C24 witness: the last frame ran with a render frame that is no frame of
\* the tree; it emitted "startFrame" alone, and the visible renderable, whose
\* frame is in the tree, has no error of a transform that is missing
C24_Witness ==
    /\ currentTime # NoTime
    /\ renderFrameId = "b"
    /\ fixedFrameId = Undefined
    /\ frameCalls = <<Emit("startFrame")>>
    /\ \E k \in DOMAIN renderables :
          /\ renderables[k].visible
          /\ hasFrame(frames, renderables[k].frameId)
          /\ <<k, MISSING_TRANSFORM>> \notin errors

\* the handlers registered for a datatype, and the first registration of one
RegisteredFor(d) ==
    {registrations[i].handler : i \in {j \in 1..Len(registrations) :
                                           d \in registrations[j].datatypes}}

FirstRegistration(h, d) ==
    CHOOSE i \in 1..Len(registrations) :
        /\ registrations[i].handler = h /\ d \in registrations[i].datatypes
        /\ \A j \in 1..(i - 1) :
              ~(registrations[j].handler = h /\ d \in registrations[j].datatypes)

\* the frame ids a message names, in the order C25 gives: that of the header,
\* then child and parent of every transform in array order
RECURSIVE TransformMentions(_, _)
TransformMentions(tfs, i) ==
    IF i > Len(tfs) THEN <<>>
    ELSE <<normalizeFrameId(tfs[i].child), normalizeFrameId(tfs[i].parent)>>
             \o TransformMentions(tfs, i + 1)

Mentions(m) ==
    (IF m.header.defined THEN <<normalizeFrameId(m.header.frame_id)>> ELSE <<>>)
        \o TransformMentions(transformsOf(m), 1)

\* a sequence without the repetitions and without the members of a set
RECURSIVE FirstNew(_, _)
FirstNew(seq, seen) ==
    IF seq = <<>> THEN <<>>
    ELSE IF Head(seq) \in seen THEN FirstNew(Tail(seq), seen)
    ELSE <<Head(seq)>> \o FirstNew(Tail(seq), seen \cup {Head(seq)})

\* one addMessageEvent call as C25 has it
MessageAsClaimed(m) ==
    LET calls == messageCalls'
        nH == IF m.header.defined THEN 1 ELSE 0
        tfs == transformsOf(m)
        nT == Len(tfs)
        nU == Len(calls) - nH - nT
    IN /\ nU >= 0
       /\ nH = 1 => /\ calls[1] = CallFrame(normalizeFrameId(m.header.frame_id))
                    /\ hasFrame(frames', normalizeFrameId(m.header.frame_id))
       /\ \A i \in 1..nT : calls[nH + i] = CallTf(normalizeTransformStamped(tfs[i]))
       /\ frames' = frames \o FirstNew(Mentions(m), Range(frames))
       /\ \A i \in 1..nU : calls[nH + nT + i].call = "handler"
       /\ {calls[nH + nT + i].arg : i \in 1..nU} = RegisteredFor(m.datatype)
       /\ \A i \in 1..nU, j \in 1..nU :
             i < j => FirstRegistration(calls[nH + nT + i].arg, m.datatype)
                         < FirstRegistration(calls[nH + nT + j].arg, m.datatype)

\* C25: addMessageEvent registers the frame_id of the header first ("" when
\* the header has none), then ingests the transforms of a TFMessage in array
\* order, then invokes the handlers registered for the datatype, each of them
\* once and in the order of their first registration, however often
\* addDatatypeSubscriptions was called with the same handler
C25_MessageOrder ==
    [][\A m \in Messages : AddMessageEvent(m) => MessageAsClaimed(m)]_vars

\* C25 witness: h1 was registered for TFMessages, then h2, then h1 again; a
\* TFMessage with a header without frame_id and two transforms was processed
C25_Witness ==
    /\ Len(registrations) = 3
    /\ registrations[1].handler = "h1"
    /\ registrations[2].handler = "h2"
    /\ registrations[3].handler = "h1"
    /\ messageCalls = <<CallFrame(""),
                        CallTf([child |-> "b", parent |-> "", stamp |-> 1, value |-> 0]),
                        CallTf([child |-> "a", parent |-> "odom", stamp |-> 1, value |-> 0]),
                        CallHandler("h1"), CallHandler("h2")>>
    /\ frames = <<"", "b", "a", "odom">>

\* C26: loadExtension, downloadExtension and installExtension of the unified
\* loader call the loaders in list order, one after the other; every loader
\* called before the last one rejected, which the unified call swallowed; it
\* resolves with the result of the first loader that does not reject and
\* calls no loader after it; it rejects, with its own Error, exactly when
\* every loader of the list rejected, which includes the empty list
C26_FirstLoaderThatResolves ==
    /\ \A i \in 1..Len(loaderCalls) : loaderCalls[i].loader = i
    /\ \A i \in 1..(Len(loaderCalls) - 1) : loaderCalls[i].rejected
    /\ Len(loaderCalls) <= unifiedResult.count
    /\ unifiedResult.outcome = "none" =>
          \A i \in 1..Len(loaderCalls) : loaderCalls[i].rejected
    /\ unifiedResult.outcome = "resolved" =>
          /\ loaderCalls # <<>>
          /\ ~loaderCalls[Len(loaderCalls)].rejected
          /\ unifiedResult.by = Len(loaderCalls)
          /\ unifiedResult.error = Undefined
    /\ unifiedResult.outcome = "rejected" =>
          /\ Len(loaderCalls) = unifiedResult.count
          /\ \A i \in 1..Len(loaderCalls) : loaderCalls[i].rejected
          /\ unifiedResult.error = ErrorOf(unifiedResult.op)
    /\ unifiedCall = NoUnified /\ unifiedResult # NoResult =>
          unifiedResult.outcome \in {"resolved", "rejected"}

\* C26 witness: installExtension over two loaders, the first of which
\* rejected; the unified call resolved with what the second returned, and the
\* second loader alone holds the extension
C26_Witness ==
    /\ unifiedCall = NoUnified
    /\ unifiedResult.op = "installExtension"
    /\ unifiedResult.outcome = "resolved"
    /\ unifiedResult.by = 2
    /\ loaderCalls = <<[loader |-> 1, rejected |-> TRUE], [loader |-> 2, rejected |-> FALSE]>>
    /\ unifiedResult.arg \in installed[2]
    /\ unifiedResult.arg \notin installed[1]

====
